---- MODULE Spec2Model ----
(***************************************************************************)
(* Table detection engine of manifest-automation                           *)
(* (src/src/utils/excelParser.js, src/src/utils/headerAnalyzer.js).        *)
(*                                                                         *)
(* A worksheet is a grid of cells.  findTableStructures scans it row by    *)
(* row (findBasicTables), resolves parent/child nesting                    *)
(* (analyzeTableHierarchy) and merges related tables                       *)
(* (processAndMergeTables).  Tables are JavaScript objects that are        *)
(* mutated in place; they are modelled as an arena `heap` of records and   *)
(* every list of tables is a sequence of references into the arena.        *)
(*                                                                         *)
(* Strings are sequences of one-character strings, so that trimming,       *)
(* lower-casing and the bigram similarity are computed, not assumed.       *)
(*                                                                         *)
(* Specifications: Spec (one run over a worksheet), SpecTables (hierarchy  *)
(* and merge over given table lists), SpecTwice (repeated runs on one      *)
(* parser), SpecErrors (findRelatedDataGroups with exceptions raised in    *)
(* the phases, lenient and strict), SpecGroups (findRelatedDataGroups      *)
(* over tables with product and date columns), SpecRenamed (hierarchy and  *)
(* merge over tables whose header rows name the same columns differently)  *)
(* SpecLog (the error log of one parser over several runs), SpecRetry      *)
(* (one call of retry, src/src/utils/retry.js) and SpecFlow (the runs of   *)
(* src/auto.js around its confirmation window).                            *)
(***************************************************************************)
EXTENDS Integers, Sequences, FiniteSets, TLC

VARIABLES
    grid,                \* worksheet: sequence of rows, each a sequence of cells
    heap,                \* arena of table objects, indexed by reference 1..Len(heap)
    pc,                  \* position in findTableStructures
    row,                 \* loop variable of findBasicTables
    currentTable,        \* findBasicTables: reference of the open table, 0 = null
    tableId,             \* findBasicTables: next table id
    tables,              \* findBasicTables: result list (references)
    hierarchicalTables,  \* value returned by analyzeTableHierarchy
    tableGroups,         \* processAndMergeTables: groups built by groupRelatedTables
    mergedTables,        \* value returned by processAndMergeTables
    errors,              \* this.errors: contexts of the recorded errors
    errorsEncountered,   \* this.performanceMetrics.errorsEncountered
    throwErrors,         \* this.config.errorHandling.throwErrors
    returned,            \* the lists findTableStructures has returned, one per call
    groupsMap,           \* findRelatedDataGroups: the local map `groups`
    dataGroups,          \* value returned by findRelatedDataGroups
    options,             \* retry: the destructured options
    attempt,             \* retry: loop variable
    lastError,           \* retry: let lastError
    waitTime,            \* retry: const waitTime of the catch block being run
    retryPc,             \* retry: position (loop test, awaiting onRetry, awaiting the timer, settled)
    promise,             \* retry: the promise the call returned
    fnCalls,             \* history: the invocations of fn and how each ended
    shouldRetryCalls,    \* history: the calls of shouldRetry and what each returned
    onRetryCalls,        \* history: the argument lists onRetry was called with
    timers,              \* history: the delays passed to setTimeout
    run,                 \* main flow: number of the run of auto.js
    flowPc,              \* main flow: position of the run
    transferConfig,      \* temp/transferConfig.json: 0 = no file, else the run that wrote it
    cancelFlag,          \* temp/cancelFlag.json exists
    code,                \* exit code of the confirmation process
    userConfig,          \* value openConfirmationWindow resolved with, 0 = null
    userAction,          \* history: what the user did in the window of this run
    transfers            \* history: the calls of createTransferProcess

parserVars == <<grid, heap, pc, row, currentTable, tableId, tables, hierarchicalTables,
                tableGroups, mergedTables, errors, errorsEncountered, throwErrors,
                returned, groupsMap, dataGroups>>

retryVars == <<options, attempt, lastError, waitTime, retryPc, promise, fnCalls,
               shouldRetryCalls, onRetryCalls, timers>>

flowVars == <<run, flowPc, transferConfig, cancelFlag, code, userConfig, userAction,
              transfers>>

vars == <<parserVars, retryVars, flowVars>>

----------------------------------------------------------------------------
(* Bounds of the model *)

\* this.range.e.r : index of the last row of the scanned worksheets
LastRow == 4
\* this.range.e.c : index of the last column of the scanned worksheets
LastCol == 3
\* table lists handed directly to analyzeTableHierarchy hold at most this many tables
MaxTables == 3
\* largest distance, in rows, between one such table's endRow and the next startRow
MaxGap == 6
\* largest first-header column of such a table
MaxIndent == 2
\* most data rows of one table in the row-deduplication inputs
MaxDataRows == 2
\* most calls of findTableStructures made on one parser
MaxCalls == 2
\* largest options.retries of a call of retry
MaxRetries == 3
\* largest options.delay and options.maxDelay of a call of retry, in milliseconds
MaxDelayMs == 3
\* most runs of auto.js in one working directory
MaxRuns == 3

----------------------------------------------------------------------------
(* Cell values and strings *)

NullCell == [t |-> "null", s |-> <<>>, n |-> 0]
StrCell(str) == [t |-> "string", s |-> str, n |-> 0]
NumCell(num) == [t |-> "number", s |-> <<>>, n |-> num]

UpperCase == <<"A","B","C","D","E","F","G","H","I","J","K","L","M",
               "N","O","P","Q","R","S","T","U","V","W","X","Y","Z">>
LowerCase == <<"a","b","c","d","e","f","g","h","i","j","k","l","m",
               "n","o","p","q","r","s","t","u","v","w","x","y","z">>

Letters == {UpperCase[i] : i \in 1..26} \cup {LowerCase[i] : i \in 1..26}

LowerOf == [c \in {UpperCase[i] : i \in 1..26} |->
               LowerCase[CHOOSE i \in 1..26 : UpperCase[i] = c]]

\* /[A-Za-z]/ on one character
IsLetter(c) == c \in Letters

\* /[A-Za-z]/.test(str)
HasLetter(str) == \E i \in 1..Len(str) : IsLetter(str[i])

ToLowerChar(c) == IF c \in DOMAIN LowerOf THEN LowerOf[c] ELSE c

\* String.prototype.toLowerCase
ToLowerCase(str) == [i \in 1..Len(str) |-> ToLowerChar(str[i])]

\* String.prototype.trim (the only white space of the model is the blank)
Trim(str) ==
    LET nonBlank == {i \in 1..Len(str) : str[i] # " "}
    IN  IF nonBlank = {} THEN <<>>
        ELSE LET lo == CHOOSE i \in nonBlank : \A j \in nonBlank : i <= j
                 hi == CHOOSE i \in nonBlank : \A j \in nonBlank : i >= j
             IN  SubSeq(str, lo, hi)

\* first.replace(/\s+/g, '')
StripSpaces(str) == SelectSeq(str, LAMBDA c : c # " ")

\* string-similarity: the bigrams of first, counted (firstBigrams map)
FirstBigrams(first) ==
    LET grams == {<<first[i], first[i + 1]>> : i \in 1..(Len(first) - 1)}
    IN  [g \in grams |->
            Cardinality({i \in 1..(Len(first) - 1) : <<first[i], first[i + 1]>> = g})]

RECURSIVE IntersectionSize(_, _, _)
\* the loop over the bigrams of second: a bigram still available in the map is
\* consumed and counted
IntersectionSize(second, i, firstBigrams) ==
    IF i > Len(second) - 1 THEN 0
    ELSE LET g == <<second[i], second[i + 1]>>
         IN  IF g \in DOMAIN firstBigrams /\ firstBigrams[g] > 0
             THEN 1 + IntersectionSize(second, i + 1,
                                       [firstBigrams EXCEPT ![g] = @ - 1])
             ELSE IntersectionSize(second, i + 1, firstBigrams)

\* stringSimilarity.compareTwoStrings: Dice coefficient over bigrams, as the
\* fraction <<numerator, denominator>>
CompareTwoStrings(a, b) ==
    LET first == StripSpaces(a)
        second == StripSpaces(b)
    IN  IF first = second THEN <<1, 1>>
        ELSE IF Len(first) < 2 \/ Len(second) < 2 THEN <<0, 1>>
        ELSE <<2 * IntersectionSize(second, 1, FirstBigrams(first)),
               Len(first) + Len(second) - 2>>

\* config excel.headerDetection.fuzzyMatchThreshold = 0.6, in tenths
FuzzyMatchThresholdTenths == 6

\* areHeadersSimilar(header1, header2)
AreHeadersSimilar(header1, header2) ==
    LET sim == CompareTwoStrings(ToLowerCase(header1.value), ToLowerCase(header2.value))
    IN  sim[1] * 10 > FuzzyMatchThresholdTenths * sim[2]

----------------------------------------------------------------------------
(* Worksheets of the model *)

ProductName == <<"P","r","o","d","u","c","t"," ","N","a","m","e">>
Barcode == <<"B","a","r","c","o","d","e">>
ExternalCode == <<"E","x","t","e","r","n","a","l"," ","C","o","d","e">>
Qty == <<"Q","T","Y">>
Qtys == <<"Q","t","y","s">>
Lot == <<" ","L","o","t"," ">>

Widget == <<"W","i","d","g","e","t">>
Code123 == <<"1","2","3">>
Ext1 == <<"E","X","T","1">>

\* the rows a worksheet is made of: an empty row (absent cells and one ""), two
\* header rows, a full data row, a data row with one letter-free cell and a row
\* with one text cell
BlankRow == <<NullCell, StrCell(<<>>)>>
HeaderRowA == <<StrCell(ProductName), StrCell(Barcode), StrCell(ExternalCode), StrCell(Qty)>>
HeaderRowB == <<StrCell(ProductName), StrCell(Lot), StrCell(Qty), StrCell(Qtys)>>
DataRowA == <<StrCell(Widget), StrCell(Code123), StrCell(Ext1), NumCell(5)>>
DataRowC == <<NullCell, StrCell(Code123)>>

TextRow == <<StrCell(Widget)>>

RowTemplates == <<BlankRow, HeaderRowA, HeaderRowB, DataRowA, DataRowC, TextRow>>

----------------------------------------------------------------------------
(* The worksheet *)

\* the worksheets scanned: LastRow + 1 rows, each one of RowTemplates (grid holds
\* the index of the template of each row); cells a template does not give are absent
Worksheets == [1..(LastRow + 1) -> 1..Len(RowTemplates)]

\* getCellValue(row, col): cell ? cell.v : null
GetCellValue(r, col) ==
    IF r + 1 \in DOMAIN grid /\ col <= LastCol /\ col + 1 \in DOMAIN RowTemplates[grid[r + 1]]
    THEN RowTemplates[grid[r + 1]][col + 1]
    ELSE NullCell

\* value === null || value === undefined || value === ""
IsBlankValue(v) == v.t = "null" \/ (v.t = "string" /\ v.s = <<>>)

\* this.config.customPatterns || [] : no custom header pattern is configured
CustomPatterns == <<>>

\* isPotentialHeader(value)
IsPotentialHeader(v) ==
    IF v.t # "string" THEN FALSE
    ELSE Len(Trim(v.s)) > 0 /\ HasLetter(v.s)

\* isPotentialData(value)
IsPotentialData(v) ==
    \/ v.t = "string" /\ Len(Trim(v.s)) > 0
    \/ v.t = "number"
    \/ v.t = "boolean"

\* countConsecutiveEmptyRows(currentRow): the empty rows that FOLLOW currentRow
RowIsBlank(r) == \A col \in 0..LastCol : IsBlankValue(GetCellValue(r, col))

RECURSIVE CountFrom(_)
CountFrom(r) ==
    IF r > LastRow THEN 0
    ELSE IF RowIsBlank(r) THEN 1 + CountFrom(r + 1)
    ELSE 0

\* CountConsecutiveEmptyRows that counts the current row too
CountEmptyRowsFromCurrent(currentRow) == CountFrom(currentRow)

CountConsecutiveEmptyRows(currentRow) == CountFrom(currentRow + 1)

\* analyzeRow(row)
AnalyzeRow(r) ==
    LET cols == 0..LastCol
        emptyCount == Cardinality({c \in cols : IsBlankValue(GetCellValue(r, c))})
        headerCount == Cardinality({c \in cols :
                           /\ ~IsBlankValue(GetCellValue(r, c))
                           /\ IsPotentialHeader(GetCellValue(r, c))})
        dataCount == Cardinality({c \in cols :
                           /\ ~IsBlankValue(GetCellValue(r, c))
                           /\ ~IsPotentialHeader(GetCellValue(r, c))
                           /\ IsPotentialData(GetCellValue(r, c))})
    IN  [isHeaderRow |-> headerCount >= 2,
         isDataRow |-> dataCount > 0,
         isEmpty |-> emptyCount = LastCol + 1,
         consecutiveEmptyRows |-> CountConsecutiveEmptyRows(r),
         headerCount |-> headerCount,
         dataCount |-> dataCount]

----------------------------------------------------------------------------
(* HeaderAnalyzer *)

\* worksheet['!merges'] || [] : the scanned worksheets hold no merged cells
WorksheetMerges == <<>>

\* adjustForMergedCells, for one header: the last merge rectangle that starts
\* in the header's row and covers its column sets the level
AdjustForMergedCells(header) ==
    LET hits == {i \in 1..Len(WorksheetMerges) :
                    /\ header.column >= WorksheetMerges[i].s.c
                    /\ header.column <= WorksheetMerges[i].e.c
                    /\ header.row = WorksheetMerges[i].s.r}
    IN  IF hits = {} THEN header
        ELSE LET last == CHOOSE i \in hits : \A j \in hits : j <= i
             IN  [header EXCEPT !.level =
                     WorksheetMerges[last].e.r - WorksheetMerges[last].s.r]

\* the test of getHeaders on one cell value
IsHeaderCell(v) == v.t = "string" /\ Len(Trim(v.s)) > 0 /\ HasLetter(v.s)

RECURSIVE GetHeadersFrom(_, _)
GetHeadersFrom(r, col) ==
    IF col > LastCol THEN <<>>
    ELSE LET v == GetCellValue(r, col)
         IN  IF IsHeaderCell(v)
             THEN <<AdjustForMergedCells(
                        [row |-> r, column |-> col, value |-> Trim(v.s), level |-> 0])>>
                  \o GetHeadersFrom(r, col + 1)
             ELSE GetHeadersFrom(r, col + 1)

\* HeaderAnalyzer.getHeaders(row)
GetHeaders(r) == GetHeadersFrom(r, 0)

----------------------------------------------------------------------------
(* Table objects *)

\* metadata: {} of a table that was not finalized
NoMetadata ==
    [indentation |-> -1, patternType |-> "undefined", contentType |-> "undefined",
     relationshipType |-> "undefined"]

\* NewTable whose extent ends one row before its header row
NewTableEmptyExtent(r, id, headers) ==
    [id |-> id, startRow |-> r, endRow |-> r - 1, headers |-> headers,
     dataRows |-> <<>>, children |-> <<>>, level |-> 0, parent |-> 0,
     rowCount |-> -1, metadata |-> NoMetadata]

\* initializeTable(row, id), with the headers already read
NewTable(r, id, headers) ==
    [id |-> id, startRow |-> r, endRow |-> r, headers |-> headers,
     dataRows |-> <<>>, children |-> <<>>, level |-> 0, parent |-> 0,
     rowCount |-> -1, metadata |-> NoMetadata]

\* NextTableId without the increment
SameTableId(id) == id

\* ids handed out by findBasicTables: tableId++
NextTableId(id) == id + 1

\* initializeTable(row, id)
InitializeTable(r, id) == NewTable(r, id, GetHeaders(r))

\* getTableIndentation(table)
GetTableIndentation(table) ==
    IF Len(table.headers) = 0 THEN 0 ELSE table.headers[1].column

\* identifyTablePattern(table)
IdentifyTablePattern(table) == "default"

\* IdentifyContentType that looks at every data row and has no 'unknown'
IdentifyContentTypeAnyRow(table) ==
    IF \E r \in 1..Len(table.dataRows) :
           \E k \in DOMAIN table.dataRows[r] : table.dataRows[r][k].t = "number"
    THEN "numeric" ELSE "text"

\* identifyContentType(table)
IdentifyContentType(table) ==
    IF Len(table.dataRows) = 0 THEN "unknown"
    ELSE LET firstRow == table.dataRows[1]
         IN  IF \E k \in DOMAIN firstRow : firstRow[k].t = "number"
             THEN "numeric" ELSE "text"

\* extractTableMetadata(table): a fresh object, relationshipType not set
ExtractTableMetadata(table) ==
    [indentation |-> GetTableIndentation(table),
     patternType |-> IdentifyTablePattern(table),
     contentType |-> IdentifyContentType(table),
     relationshipType |-> "undefined"]

\* finalizeTable(table, endRow)
FinalizeTable(table, endRow) ==
    LET t1 == [table EXCEPT !.endRow = endRow, !.rowCount = Len(table.dataRows)]
    IN  [t1 EXCEPT !.metadata = ExtractTableMetadata(t1)]

\* rowData[key] = value
Put(map, key, value) ==
    [k \in (DOMAIN map) \cup {key} |-> IF k = key THEN value ELSE map[k]]

EmptyMap == [k \in {} |-> NullCell]

\* new Map() of findRelatedDataGroups
NoGroups == [k \in {} |-> 0]

\* formatCellValue(value)
FormatCellValue(v) == v

RECURSIVE ExtractFrom(_, _, _, _)
ExtractFrom(r, headers, i, rowData) ==
    IF i > Len(headers) THEN rowData
    ELSE LET v == GetCellValue(r, headers[i].column)
         IN  ExtractFrom(r, headers, i + 1,
                 IF v.t # "null"
                 THEN Put(rowData, headers[i].value, FormatCellValue(v))
                 ELSE rowData)

\* extractRowData(row, headers)
ExtractRowData(r, headers) == ExtractFrom(r, headers, 1, EmptyMap)

----------------------------------------------------------------------------
(* Error handling *)

\* Rethrows whatever the configuration says
RethrowsAlways == TRUE

\* Rethrows with the throw of line 583 removed
RethrowsNever == FALSE

\* line 582: this.config.errorHandling && this.config.errorHandling.throwErrors
Rethrows == throwErrors

\* HandleError that keeps no record
HandleErrorUnrecorded(contexts) == UNCHANGED <<errors, errorsEncountered>>

\* the catch blocks an exception raised in a phase of findTableStructures passes
\* through: the one of the phase and, when handleError throws the exception again
\* (line 583), the one of findTableStructures (line 79), which throws it once more
CaughtIn(phase) ==
    IF Rethrows THEN <<phase, "table-detection">> ELSE <<phase>>

\* HandleError that leaves the counter alone
HandleErrorUncounted(contexts) ==
    /\ errors' = errors \o contexts
    /\ UNCHANGED errorsEncountered

\* handleError(context, error), once for each catch block of contexts: an entry
\* is pushed on this.errors and the counter is incremented
HandleError(contexts) ==
    /\ errors' = errors \o contexts
    /\ errorsEncountered' = errorsEncountered + Len(contexts)

NoError == UNCHANGED <<errors, errorsEncountered>>

----------------------------------------------------------------------------
(* findBasicTables: one action per iteration of the row loop *)

\* EndsTable without the count of the empty rows that follow
EndsTableOnAnyEmptyRow(rowAnalysis) == rowAnalysis.isEmpty

\* line 98: rowAnalysis.isEmpty && rowAnalysis.consecutiveEmptyRows > 1
EndsTable(rowAnalysis) ==
    rowAnalysis.isEmpty /\ rowAnalysis.consecutiveEmptyRows > 1

\* StoresRow that also wants the row free of header-like cells
StoresRowWithoutText(rowAnalysis) ==
    rowAnalysis.isDataRow /\ rowAnalysis.headerCount = 0

\* line 104: the non-empty row is stored only when it is a data row
StoresRow(rowAnalysis) == rowAnalysis.isDataRow

Scanning == pc = "scan" /\ row <= LastRow

LaterPhases ==
    UNCHANGED <<grid, hierarchicalTables, tableGroups, mergedTables, throwErrors,
                returned, groupsMap, dataGroups>>

\* rowAnalysis.isHeaderRow && !currentTable
OpenTable ==
    /\ Scanning
    /\ AnalyzeRow(row).isHeaderRow /\ currentTable = 0
    /\ heap' = Append(heap, InitializeTable(row, tableId))
    /\ currentTable' = Len(heap) + 1
    /\ tableId' = NextTableId(tableId)
    /\ row' = row + 1
    /\ UNCHANGED <<pc, tables>>
    /\ UNCHANGED retryVars
    /\ UNCHANGED flowVars
    /\ LaterPhases /\ NoError

\* currentTable, and the row starts a run of empty rows
CloseTable ==
    /\ Scanning
    /\ currentTable # 0
    /\ EndsTable(AnalyzeRow(row))
    /\ heap' = [heap EXCEPT ![currentTable] = FinalizeTable(@, row - 1)]
    /\ tables' = Append(tables, currentTable)
    /\ currentTable' = 0
    /\ row' = row + 1
    /\ UNCHANGED <<pc, tableId>>
    /\ UNCHANGED retryVars
    /\ UNCHANGED flowVars
    /\ LaterPhases /\ NoError

\* currentTable, and the row is not empty
ExtendTable ==
    /\ Scanning
    /\ currentTable # 0
    /\ ~EndsTable(AnalyzeRow(row))
    /\ ~AnalyzeRow(row).isEmpty
    /\ heap' = [heap EXCEPT ![currentTable] =
                  [@ EXCEPT !.endRow = row,
                            !.dataRows =
                                IF StoresRow(AnalyzeRow(row))
                                THEN Append(@, ExtractRowData(row, heap[currentTable].headers))
                                ELSE @]]
    /\ row' = row + 1
    /\ UNCHANGED <<pc, currentTable, tableId, tables>>
    /\ UNCHANGED retryVars
    /\ UNCHANGED flowVars
    /\ LaterPhases /\ NoError

\* no branch of the loop body applies
SkipRow ==
    /\ Scanning
    /\ \/ currentTable = 0 /\ ~AnalyzeRow(row).isHeaderRow
       \/ currentTable # 0 /\ AnalyzeRow(row).isEmpty /\ ~EndsTable(AnalyzeRow(row))
    /\ row' = row + 1
    /\ UNCHANGED <<pc, heap, currentTable, tableId, tables>>
    /\ UNCHANGED retryVars
    /\ UNCHANGED flowVars
    /\ LaterPhases /\ NoError

\* after the loop: an open table is finalized with the last row
FinishScan ==
    /\ pc = "scan" /\ row > LastRow
    /\ IF currentTable # 0
       THEN /\ heap' = [heap EXCEPT ![currentTable] = FinalizeTable(@, LastRow)]
            /\ tables' = Append(tables, currentTable)
       ELSE UNCHANGED <<heap, tables>>
    /\ pc' = "hierarchy"
    /\ UNCHANGED <<row, currentTable, tableId>>
    /\ UNCHANGED retryVars
    /\ UNCHANGED flowVars
    /\ LaterPhases /\ NoError

\* an exception is raised inside the try block of findBasicTables while the row
\* loop runs: the catch block (lines 115-118) records it and returns [], unless
\* handleError throws it again
ScanThrows ==
    /\ Scanning
    /\ HandleError(CaughtIn("basic-table-detection"))
    /\ IF Rethrows
       THEN pc' = "thrown" /\ UNCHANGED tables
       ELSE pc' = "hierarchy" /\ tables' = <<>>
    /\ UNCHANGED <<heap, row, currentTable, tableId>>
    /\ UNCHANGED retryVars
    /\ UNCHANGED flowVars
    /\ LaterPhases

----------------------------------------------------------------------------
(* analyzeTableHierarchy *)

\* isChildTable(parentTable, potentialChild)
IsChildTable(parentTable, potentialChild) ==
    IF potentialChild.startRow = parentTable.endRow + 1
    THEN LET parentIndent == IF Len(parentTable.headers) > 0
                             THEN parentTable.headers[1].column ELSE 0
             childIndent == IF Len(potentialChild.headers) > 0
                            THEN potentialChild.headers[1].column ELSE 0
         IN  childIndent > parentIndent
    ELSE FALSE

\* IsProcessed that forgets the processed indices
IsProcessedNever(processedIndices, j) == FALSE

\* lines 277 and 284, processedIndices.has: a table that already has a parent is
\* neither offered to a later table nor scanned as a parent itself
IsProcessed(processedIndices, j) == j \in processedIndices

RECURSIVE ClaimChildren(_, _, _, _, _)
\* the inner loop, j = i + 1 .. tables.length - 1 (indices from 1 here);
\* yields the arena and processedIndices after it
ClaimChildren(h, list, i, j, processedIndices) ==
    IF j > Len(list) THEN [heap |-> h, processed |-> processedIndices]
    ELSE IF IsProcessed(processedIndices, j)
         THEN ClaimChildren(h, list, i, j + 1, processedIndices)
    ELSE IF IsChildTable(h[list[i]], h[list[j]])
         THEN LET h1 == [h EXCEPT ![list[j]] =
                            [@ EXCEPT !.level = h[list[i]].level + 1,
                                      !.parent = list[i]]]
                  h2 == [h1 EXCEPT ![list[i]] =
                            [@ EXCEPT !.children = Append(@, list[j])]]
              IN  ClaimChildren(h2, list, i, j + 1, processedIndices \cup {j})
    ELSE ClaimChildren(h, list, i, j + 1, processedIndices)

RECURSIVE BuildHierarchy(_, _, _, _, _)
\* the outer loop; yields the arena and hierarchicalTables
BuildHierarchy(h, list, i, processedIndices, result) ==
    IF i > Len(list) THEN [heap |-> h, result |-> result]
    ELSE IF IsProcessed(processedIndices, i)
         THEN BuildHierarchy(h, list, i + 1, processedIndices, result)
    ELSE LET h0 == [h EXCEPT ![list[i]] =
                       [@ EXCEPT !.children = <<>>, !.level = 0, !.parent = 0]]
             inner == ClaimChildren(h0, list, i, i + 1, processedIndices)
         IN  BuildHierarchy(inner.heap, list, i + 1, inner.processed \cup {i},
                            Append(result, list[i]))

\* the label analyzeTableRelationships gives one table
RelationshipType(table) ==
    IF Len(table.children) > 0 THEN "parent"
    ELSE IF table.parent # 0 THEN "child"
    ELSE "independent"

\* analyzeTableRelationships(tables): labels the tables of the list it is given
AnalyzeTableRelationships(h, list) ==
    LET listed == {list[k] : k \in 1..Len(list)}
    IN  [t \in DOMAIN h |->
            IF t \in listed
            THEN [h[t] EXCEPT !.metadata =
                     [@ EXCEPT !.relationshipType = RelationshipType(h[t])]]
            ELSE h[t]]

RECURSIVE ValidateTables(_, _, _)
\* validateTableHierarchy: tables.forEach(validateTable) with the shared visited
\* set; yields the visited ids and whether the circular-reference error was thrown
ValidateTables(h, list, visited) ==
    IF Len(list) = 0 THEN [visited |-> visited, thrown |-> FALSE]
    ELSE LET t == list[1]
         IN  IF h[t].id \in visited THEN [visited |-> visited, thrown |-> TRUE]
             ELSE LET below == ValidateTables(h, h[t].children, visited \cup {h[t].id})
                  IN  IF below.thrown THEN below
                      ELSE ValidateTables(h, Tail(list), below.visited)

\* validateTableHierarchy(tables): TRUE when it throws
ValidateTableHierarchyThrows(h, list) == ValidateTables(h, list, {}).thrown

\* AnalyzeTableHierarchyResult that returns the input list on the success path too
AnalyzeTableHierarchyKeepsList(h, list) ==
    LET built == BuildHierarchy(h, list, 1, {}, <<>>)
        labelled == AnalyzeTableRelationships(built.heap, built.result)
    IN  [heap |-> labelled,
         result |-> list,
         thrown |-> ValidateTableHierarchyThrows(labelled, built.result)]

\* analyzeTableHierarchy(tables): the arena after the call, the returned list and
\* whether the catch block ran
AnalyzeTableHierarchyResult(h, list) ==
    LET built == BuildHierarchy(h, list, 1, {}, <<>>)
        labelled == AnalyzeTableRelationships(built.heap, built.result)
        thrown == ValidateTableHierarchyThrows(labelled, built.result)
    IN  [heap |-> labelled,
         result |-> IF thrown THEN list ELSE built.result,
         thrown |-> thrown]

\* line 72, this.analyzeTableHierarchy(basicTables); raised: an exception is
\* raised inside the try block after the loops (the throw of line 334 is the one
\* the code holds).  The catch block records it and returns the input list, unless
\* handleError throws it again.
HierarchyStep(raised) ==
    /\ LET res == AnalyzeTableHierarchyResult(heap, tables)
           thrown == raised \/ res.thrown
       IN  /\ heap' = res.heap
           /\ IF thrown
              THEN /\ HandleError(CaughtIn("hierarchy-analysis"))
                   /\ IF Rethrows
                      THEN pc' = "thrown" /\ UNCHANGED hierarchicalTables
                      ELSE pc' = "merge" /\ hierarchicalTables' = tables
              ELSE /\ NoError
                   /\ pc' = "merge"
                   /\ hierarchicalTables' = res.result
    /\ UNCHANGED retryVars
    /\ UNCHANGED flowVars
    /\ UNCHANGED <<grid, row, currentTable, tableId, tables, tableGroups, mergedTables,
                   throwErrors, returned, groupsMap, dataGroups>>

\* the try block runs to its return, unless validateTableHierarchy throws
AnalyzeTableHierarchy ==
    /\ pc = "hierarchy"
    /\ HierarchyStep(FALSE)

\* an exception is raised inside the try block
HierarchyThrows ==
    /\ pc = "hierarchy"
    /\ HierarchyStep(TRUE)

----------------------------------------------------------------------------
(* processAndMergeTables *)

Abs(x) == IF x < 0 THEN -x ELSE x

Min(x, y) == IF x <= y THEN x ELSE y

Max(x, y) == IF x >= y THEN x ELSE y

\* AreTablesRelated with the distance test off by one (>= 5 for > 5)
AreTablesRelatedCloser(table1, table2) ==
    IF Abs(table2.startRow - table1.endRow) >= 5 THEN FALSE
    ELSE LET matchCount ==
                 Cardinality({p \in (1..Len(table1.headers)) \X (1..Len(table2.headers)) :
                                 AreHeadersSimilar(table1.headers[p[1]],
                                                   table2.headers[p[2]])})
         IN  2 * matchCount >= Min(Len(table1.headers), Len(table2.headers))

\* areTablesRelated(table1, table2); matchCount >= min(..) * 0.5 is compared
\* after doubling both sides
AreTablesRelated(table1, table2) ==
    IF Abs(table2.startRow - table1.endRow) > 5 THEN FALSE
    ELSE LET matchCount ==
                 Cardinality({p \in (1..Len(table1.headers)) \X (1..Len(table2.headers)) :
                                 AreHeadersSimilar(table1.headers[p[1]],
                                                   table2.headers[p[2]])})
         IN  2 * matchCount >= Min(Len(table1.headers), Len(table2.headers))

\* JoinsGroup that also accepts a table related to any table between the seed
\* and itself
JoinsGroupChained(h, list, i, j) ==
    \E k \in i..(j - 1) : AreTablesRelated(h[list[k]], h[list[j]])

\* line 369: the test that makes tables[j] join the group seeded by tables[i]
JoinsGroup(h, list, i, j) == AreTablesRelated(h[list[i]], h[list[j]])

RECURSIVE CollectGroup(_, _, _, _, _, _)
\* the inner loop of groupRelatedTables; yields the group and the used set
CollectGroup(h, list, i, j, group, used) ==
    IF j > Len(list) THEN [group |-> group, used |-> used]
    ELSE IF j \in used THEN CollectGroup(h, list, i, j + 1, group, used)
    ELSE IF JoinsGroup(h, list, i, j)
         THEN CollectGroup(h, list, i, j + 1, Append(group, list[j]), used \cup {j})
    ELSE CollectGroup(h, list, i, j + 1, group, used)

RECURSIVE GroupFrom(_, _, _, _, _)
GroupFrom(h, list, i, used, groups) ==
    IF i > Len(list) THEN groups
    ELSE IF i \in used THEN GroupFrom(h, list, i + 1, used, groups)
    ELSE LET inner == CollectGroup(h, list, i, i + 1, <<list[i]>>, used \cup {i})
         IN  GroupFrom(h, list, i + 1, inner.used, Append(groups, inner.group))

\* groupRelatedTables(tables)
GroupRelatedTables(h, list) == GroupFrom(h, list, 1, {}, <<>>)

RECURSIVE MergeHeadersFrom(_, _, _)
MergeHeadersFrom(merged, headers2, k) ==
    IF k > Len(headers2) THEN merged
    ELSE LET exists == \E m \in 1..Len(merged) : AreHeadersSimilar(merged[m], headers2[k])
         IN  MergeHeadersFrom(IF exists THEN merged ELSE Append(merged, headers2[k]),
                              headers2, k + 1)

\* mergeHeaders(headers1, headers2)
MergeHeaders(headers1, headers2) == MergeHeadersFrom(headers1, headers2, 1)

RECURSIVE MergeFrom(_, _, _)
\* the loop of mergeTables over group[1..]: folds each member into the base table
MergeFrom(h, group, i) ==
    IF i > Len(group) THEN h
    ELSE LET base == group[1]
             table == h[group[i]]
         IN  MergeFrom([h EXCEPT ![base] =
                           [@ EXCEPT !.headers = MergeHeaders(h[base].headers, table.headers),
                                     !.dataRows = h[base].dataRows \o table.dataRows,
                                     !.endRow = Max(h[base].endRow, table.endRow)]],
                       group, i + 1)

\* MergeTables that moves the rows: the absorbed members are left without data rows
MergeTablesMovingRows(h, group) ==
    LET merged == IF Len(group) = 1 THEN h ELSE MergeFrom(h, group, 2)
    IN  [t \in DOMAIN merged |->
            IF \E k \in 2..Len(group) : group[k] = t
            THEN [merged[t] EXCEPT !.dataRows = <<>>]
            ELSE merged[t]]

\* MergeTables that returns group[0] without folding the other members into it
MergeTablesBaseOnly(h, group) == h

\* mergeTables(group): the arena after the call; the value returned is group[0]
MergeTables(h, group) ==
    IF Len(group) = 1 THEN h ELSE MergeFrom(h, group, 2)

\* RowMatches that wants every field identical
RowMatchesAllFields(keptRow, newRow) ==
    /\ DOMAIN newRow # {}
    /\ \A k \in DOMAIN newRow : k \in DOMAIN keptRow /\ keptRow[k] = newRow[k]

\* the comparison of findMatchingRow for one kept row: matchScore / keys.length > 0.7
\* (0 / 0 is NaN and compares false)
RowMatches(keptRow, newRow) ==
    LET keys == DOMAIN newRow
        matchScore == Cardinality({k \in keys :
                          k \in DOMAIN keptRow /\ keptRow[k] = newRow[k]})
    IN  Cardinality(keys) > 0 /\ matchScore * 10 > 7 * Cardinality(keys)

\* findMatchingRow(rows, newRow) finds a row
FindMatchingRow(rows, newRow) == \E k \in 1..Len(rows) : RowMatches(rows[k], newRow)

RECURSIVE UniqueRowsFrom(_, _, _)
UniqueRowsFrom(dataRows, k, uniqueRows) ==
    IF k > Len(dataRows) THEN uniqueRows
    ELSE UniqueRowsFrom(dataRows, k + 1,
             IF FindMatchingRow(uniqueRows, dataRows[k]) THEN uniqueRows
             ELSE Append(uniqueRows, dataRows[k]))

\* processTableData(table): the new value of table.dataRows
ProcessTableData(table) == UniqueRowsFrom(table.dataRows, 1, <<>>)

RECURSIVE MergeGroups(_, _, _)
\* tableGroups.map(group => this.mergeTables(group))
MergeGroups(h, groups, g) ==
    IF g > Len(groups) THEN h
    ELSE MergeGroups(MergeTables(h, groups[g]), groups, g + 1)

RECURSIVE ProcessAll(_, _, _)
\* mergedTables.forEach(table => this.processTableData(table))
ProcessAll(h, merged, k) ==
    IF k > Len(merged) THEN h
    ELSE ProcessAll([h EXCEPT ![merged[k]] =
                        [@ EXCEPT !.dataRows = ProcessTableData(h[merged[k]])]],
                    merged, k + 1)

\* processAndMergeTables(tables): the groups, the returned list and the arena
ProcessAndMergeTablesResult(h, list) ==
    LET groups == GroupRelatedTables(h, list)
        merged == [g \in 1..Len(groups) |-> groups[g][1]]
    IN  [groups |-> groups,
         result |-> merged,
         heap |-> ProcessAll(MergeGroups(h, groups, 1), merged, 1)]

\* line 73, this.processAndMergeTables(hierarchicalTables), and the return of
\* findTableStructures (lines 74-77)
ProcessAndMergeTables ==
    /\ pc = "merge"
    /\ LET res == ProcessAndMergeTablesResult(heap, hierarchicalTables)
       IN  /\ heap' = res.heap
           /\ tableGroups' = res.groups
           /\ mergedTables' = res.result
           /\ returned' = Append(returned, res.result)
    /\ pc' = "done"
    /\ UNCHANGED retryVars
    /\ UNCHANGED flowVars
    /\ UNCHANGED <<grid, row, currentTable, tableId, tables, hierarchicalTables,
                   throwErrors, groupsMap, dataGroups>>
    /\ NoError

\* line 73 when an exception is raised inside the try block of
\* processAndMergeTables before a group is merged: the catch block records it and
\* returns the input list, unless handleError throws it again
MergeThrows ==
    /\ pc = "merge"
    /\ HandleError(CaughtIn("table-merging"))
    /\ IF Rethrows
       THEN pc' = "thrown" /\ UNCHANGED <<mergedTables, returned>>
       ELSE /\ pc' = "done"
            /\ mergedTables' = hierarchicalTables
            /\ returned' = Append(returned, hierarchicalTables)
    /\ UNCHANGED retryVars
    /\ UNCHANGED flowVars
    /\ UNCHANGED <<grid, heap, row, currentTable, tableId, tables, hierarchicalTables,
                   tableGroups, throwErrors, groupsMap, dataGroups>>

----------------------------------------------------------------------------
(* findRelatedDataGroups *)

ProductWord == <<"p","r","o","d","u","c","t">>
DateWord == <<"d","a","t","e">>

\* String.prototype.includes
Includes(str, sub) ==
    \E i \in 1..(Len(str) - Len(sub) + 1) : SubSeq(str, i, i + Len(sub) - 1) = sub

\* identifyDataGroup(headerValue); "null" stands for null
IdentifyDataGroup(headerValue) ==
    LET lower == ToLowerCase(headerValue)
    IN  IF Includes(lower, ProductWord) THEN "product"
        ELSE IF Includes(lower, DateWord) THEN "date"
        ELSE "null"

\* Boolean(value), the test of filter(Boolean): undefined, null, "", 0 and false
\* are dropped
Truthy(v) ==
    \/ v.t = "string" /\ v.s # <<>>
    \/ v.t = "number" /\ v.n # 0
    \/ v.t = "boolean" /\ v.n # 0

Digits == {"0","1","2","3","4","5","6","7","8","9"}

AllDigits(str, from, to) == to <= Len(str) /\ \A i \in from..to : str[i] \in Digits

\* /^\d{4}-\d{2}-\d{2}/
IsIsoDate(str) ==
    /\ Len(str) >= 10
    /\ AllDigits(str, 1, 4) /\ str[5] = "-"
    /\ AllDigits(str, 6, 7) /\ str[8] = "-"
    /\ AllDigits(str, 9, 10)

\* /^\d{2}\/\d{2}\/\d{4}/
IsUsDate(str) ==
    /\ Len(str) >= 10
    /\ AllDigits(str, 1, 2) /\ str[3] = "/"
    /\ AllDigits(str, 4, 5) /\ str[6] = "/"
    /\ AllDigits(str, 7, 10)

\* /^[A-Z0-9-]+$/
IsCode(str) ==
    /\ Len(str) > 0
    /\ \A i \in 1..Len(str) :
          str[i] \in {UpperCase[k] : k \in 1..26} \cup Digits \cup {"-"}

\* identifyValueType(value)
IdentifyValueType(v) ==
    IF v.t = "number" THEN "number"
    ELSE IF v.t = "boolean" THEN "boolean"
    ELSE IF v.t = "string" /\ (IsIsoDate(v.s) \/ IsUsDate(v.s)) THEN "date"
    ELSE IF v.t = "string" /\ IsCode(v.s) THEN "code"
    ELSE "text"

DigitChars == <<"0","1","2","3","4","5","6","7","8","9">>

RECURSIVE NatToString(_)
NatToString(n) ==
    IF n < 10 THEN <<DigitChars[n + 1]>>
    ELSE NatToString(n \div 10) \o <<DigitChars[(n % 10) + 1]>>

\* value.toString(); the numbers of the model are integers
ValueToString(v) ==
    IF v.t = "string" THEN v.s
    ELSE IF v.t = "number"
         THEN IF v.n < 0 THEN <<"-">> \o NatToString(-v.n) ELSE NatToString(v.n)
    ELSE IF v.n # 0 THEN <<"t","r","u","e">> ELSE <<"f","a","l","s","e">>

\* !isNaN(sample) for a string: blank, or an optionally signed run of digits (the
\* strings of the model hold no fraction, exponent or radix prefix)
IsNumericString(str) ==
    LET t == Trim(str)
        body == IF Len(t) > 0 /\ t[1] \in {"+", "-"} THEN Tail(t) ELSE t
    IN  \/ t = <<>>
        \/ Len(body) > 0 /\ AllDigits(body, 1, Len(body))

\* detectDateFormat(sample); "null" stands for null
DetectDateFormat(sample) ==
    IF IsIsoDate(sample) THEN "YYYY-MM-DD"
    ELSE IF IsUsDate(sample) THEN "MM/DD/YYYY"
    ELSE "null"

\* detectFormat(values)
DetectFormat(values) ==
    LET sample == ValueToString(values[1])
        dated == /\ Includes(sample, <<"/">>) \/ Includes(sample, <<"-">>)
                 /\ DetectDateFormat(sample) # "null"
    IN  IF dated THEN [type |-> "date", format |-> DetectDateFormat(sample)]
        ELSE IF IsNumericString(sample) THEN [type |-> "number", format |-> "standard"]
        ELSE IF IsCode(sample) THEN [type |-> "code", format |-> "alphanumeric"]
        ELSE [type |-> "text", format |-> "null"]

\* row[header.value]; NullCell stands for undefined
FieldOf(rowData, key) == IF key \in DOMAIN rowData THEN rowData[key] ELSE NullCell

\* table.dataRows.map(row => row[header.value]).filter(Boolean)
ColumnValues(table, header) ==
    SelectSeq([k \in 1..Len(table.dataRows) |-> FieldOf(table.dataRows[k], header.value)],
              Truthy)

\* extractDataPattern(table, header) returns null
NoPattern(table, header) == Len(ColumnValues(table, header)) = 0

\* extractDataPattern(table, header) when it returns a pattern
ExtractDataPattern(table, header) ==
    LET values == ColumnValues(table, header)
    IN  [type |-> IdentifyValueType(values[1]),
         format |-> DetectFormat(values),
         isUnique |-> Cardinality({values[k] : k \in 1..Len(values)}) = Len(values),
         hasNulls |-> \E k \in 1..Len(values) : values[k].t = "null",
         examples |-> SubSeq(values, 1, Min(3, Len(values)))]

RECURSIVE CollectHeaders(_, _, _, _)
\* table.headers.forEach(header => ...), lines 449-471, from header k on
CollectHeaders(h, t, k, map) ==
    IF k > Len(h[t].headers) THEN map
    ELSE LET header == h[t].headers[k]
             groupType == IdentifyDataGroup(header.value)
             group == IF groupType \in DOMAIN map THEN map[groupType]
                      ELSE [type |-> groupType, locations |-> <<>>,
                            relatedData |-> EmptyMap, patterns |-> <<>>]
             located == [group EXCEPT !.locations =
                            Append(@, [row |-> h[t].startRow, col |-> header.column,
                                       table |-> t])]
             described == IF NoPattern(h[t], header) THEN located
                          ELSE [located EXCEPT !.patterns =
                                   Append(@, ExtractDataPattern(h[t], header))]
         IN  CollectHeaders(h, t, k + 1,
                 IF groupType = "null" THEN map ELSE Put(map, groupType, described))

RECURSIVE CollectTables(_, _, _, _)
\* tables.forEach(table => ...), lines 448-472, from table i on
CollectTables(h, list, i, map) ==
    IF i > Len(list) THEN map
    ELSE CollectTables(h, list, i + 1, CollectHeaders(h, list[i], 1, map))

\* findRelatedDataGroups after findTableStructures has returned (line 446): the
\* first forEach builds the local map
CollectDataGroups ==
    /\ pc = "done"
    /\ groupsMap' = CollectTables(heap, mergedTables, 1, NoGroups)
    /\ pc' = "related"
    /\ UNCHANGED retryVars
    /\ UNCHANGED flowVars
    /\ UNCHANGED <<grid, heap, row, currentTable, tableId, tables, hierarchicalTables,
                   tableGroups, mergedTables, throwErrors, returned, dataGroups>>
    /\ NoError

\* the class defines no method findRelatedData: the call of line 475 throws a
\* TypeError for the first location of the first group
FindRelatedDataThrows(map) == \E g \in DOMAIN map : Len(map[g].locations) > 0

\* findRelatedDataGroups, lines 473-483: the second forEach, then the return of
\* the map or the catch block
RelateDataGroups ==
    /\ pc = "related"
    /\ IF FindRelatedDataThrows(groupsMap)
       THEN /\ HandleError(<<"data-grouping">>)
            /\ IF Rethrows
               THEN pc' = "thrown" /\ UNCHANGED dataGroups
               ELSE pc' = "returned" /\ dataGroups' = NoGroups
       ELSE /\ NoError
            /\ pc' = "returned"
            /\ dataGroups' = groupsMap
    /\ UNCHANGED retryVars
    /\ UNCHANGED flowVars
    /\ UNCHANGED <<grid, heap, row, currentTable, tableId, tables, hierarchicalTables,
                   tableGroups, mergedTables, throwErrors, returned, groupsMap>>

----------------------------------------------------------------------------
(* The main flow of auto.js around the confirmation window                      *)
(* (src/auto.js, src/src/confirmation/main.js)                                  *)

\* the first run in a working directory: temp/ holds neither file, and the
\* confirmation window has been opened
FlowStart ==
    /\ run = 1
    /\ flowPc = "window"
    /\ transferConfig = 0
    /\ cancelFlag = FALSE
    /\ code = 0
    /\ userConfig = 0
    /\ userAction = "none"
    /\ transfers = <<>>

\* ipcMain.on('approve-transfer'): the file is written, the window is closed,
\* window-all-closed quits the application and the process exits with code 0
ApproveTransfer ==
    /\ flowPc = "window"
    /\ transferConfig' = run
    /\ userAction' = "approve"
    /\ code' = 0
    /\ flowPc' = "closed"
    /\ UNCHANGED <<run, cancelFlag, userConfig, transfers>>
    /\ UNCHANGED <<parserVars, retryVars>>

\* ipcMain.on('cancel-transfer'): the flag is written, the window is closed,
\* window-all-closed quits the application
CancelTransfer ==
    /\ flowPc = "window"
    /\ cancelFlag' = TRUE
    /\ userAction' = "cancel"
    /\ code' = 0
    /\ flowPc' = "closed"
    /\ UNCHANGED <<run, transferConfig, userConfig, transfers>>
    /\ UNCHANGED <<parserVars, retryVars>>

\* the user closes the window without a choice: window-all-closed quits the
\* application
WindowAllClosed ==
    /\ flowPc = "window"
    /\ userAction' = "close"
    /\ code' = 0
    /\ flowPc' = "closed"
    /\ UNCHANGED <<run, transferConfig, cancelFlag, userConfig, transfers>>
    /\ UNCHANGED <<parserVars, retryVars>>

\* the confirmation process is killed or fails: it exits with a non-zero code
ConfirmationFails ==
    /\ flowPc = "window"
    /\ userAction' = "none"
    /\ code' = 1
    /\ flowPc' = "closed"
    /\ UNCHANGED <<run, transferConfig, cancelFlag, userConfig, transfers>>
    /\ UNCHANGED <<parserVars, retryVars>>

\* electronProcess.on('close', code): the promise of openConfirmationWindow is
\* resolved with the parsed file or with null, or rejected
OnClose ==
    /\ flowPc = "closed"
    /\ IF code = 0
       THEN IF transferConfig = 0
            THEN flowPc' = "rejected" /\ UNCHANGED userConfig
            ELSE flowPc' = "resolved" /\ userConfig' = transferConfig
       ELSE flowPc' = "resolved" /\ userConfig' = 0
    /\ UNCHANGED <<run, transferConfig, cancelFlag, code, userAction, transfers>>
    /\ UNCHANGED <<parserVars, retryVars>>

\* the main block after await openConfirmationWindow: without userConfig temp/
\* is removed and the process exits, else createTransferProcess is called
MainAfterConfirmation ==
    /\ flowPc = "resolved"
    /\ IF userConfig = 0
       THEN /\ transferConfig' = 0
            /\ cancelFlag' = FALSE
            /\ flowPc' = "exit0"
            /\ UNCHANGED transfers
       ELSE /\ transfers' = Append(transfers, [run |-> run, config |-> userConfig])
            /\ flowPc' = "transfer"
            /\ UNCHANGED <<transferConfig, cancelFlag>>
    /\ UNCHANGED <<run, code, userConfig, userAction>>
    /\ UNCHANGED <<parserVars, retryVars>>

\* the catch block of the main block: process.exit(1)
MainCatches ==
    /\ flowPc = "rejected"
    /\ flowPc' = "exit1"
    /\ UNCHANGED <<run, transferConfig, cancelFlag, code, userConfig, userAction,
                   transfers>>
    /\ UNCHANGED <<parserVars, retryVars>>

\* the process has ended; auto.js is started again in the same directory and
\* reaches its confirmation window; temp/ is as the earlier run left it
StartAgain ==
    /\ flowPc \in {"transfer", "exit0", "exit1"}
    /\ run < MaxRuns
    /\ run' = run + 1
    /\ flowPc' = "window"
    /\ code' = 0
    /\ userConfig' = 0
    /\ userAction' = "none"
    /\ UNCHANGED <<transferConfig, cancelFlag, transfers>>
    /\ UNCHANGED <<parserVars, retryVars>>

----------------------------------------------------------------------------
(* retry(fn, options) (src/src/utils/retry.js) *)

\* the value of a variable that was never assigned and of a function without return
Undefined == [name |-> "undefined"]

\* what fn resolves with
Results == {[name |-> "result"]}

\* what fn and onRetry reject with: Error objects, told apart by their message
ErrorMessages == {"E1", "E2"}
Errors == {[name |-> "Error", message |-> <<m>>] : m \in ErrorMessages}

\* class RetryError extends Error
RetryError(message, error) ==
    [name |-> "RetryError", message |-> message, lastError |-> error]

Pending == [state |-> "pending", value |-> Undefined, reason |-> Undefined]
Fulfilled(v) == [state |-> "fulfilled", value |-> v, reason |-> Undefined]
Rejected(e) == [state |-> "rejected", value |-> Undefined, reason |-> e]

\* the defaults of the destructuring; onRetry and shouldRetry hold whether the
\* option is a function
DefaultOptions ==
    [retries |-> 3, delay |-> 1000, exponential |-> TRUE, maxDelay |-> 30000,
     onRetry |-> FALSE, shouldRetry |-> FALSE]

RetryOptions ==
    [retries : 0..MaxRetries, delay : 1..MaxDelayMs, exponential : BOOLEAN,
     maxDelay : 1..MaxDelayMs, onRetry : BOOLEAN, shouldRetry : BOOLEAN]

\* the state of retry at its call, before the first loop test
RetryStart ==
    /\ attempt = 1
    /\ lastError = Undefined
    /\ waitTime = 0
    /\ retryPc = "loop"
    /\ promise = Pending
    /\ fnCalls = <<>>
    /\ shouldRetryCalls = <<>>
    /\ onRetryCalls = <<>>
    /\ timers = <<>>

\* the loop test with one more round
LoopContinuesOnceMore == attempt <= options.retries + 1

\* attempt <= retries
LoopContinues == attempt <= options.retries

\* lastError that keeps the error of the first failed attempt
LastErrorKeptFirst(error) == IF lastError = Undefined THEN error ELSE lastError

\* lastError = error
LastErrorAfter(error) == error

\* a shouldRetry whose answer is ignored
AbortedNever(verdict) == FALSE

\* typeof shouldRetry === 'function' && !shouldRetry(error, attempt)
Aborted(verdict) == options.shouldRetry /\ ~verdict

\* Math.pow(2, attempt - 1)
Pow2(n) == 2 ^ n

\* exponential ? Math.min(delay * Math.pow(2, attempt - 1), maxDelay) : delay
WaitTime(a) ==
    IF options.exponential
    THEN Min(options.delay * Pow2(a - 1), options.maxDelay)
    ELSE options.delay

\* onRetry called with a 0-based attempt number
OnRetryArgumentsFromZero(error) == <<error, attempt - 1>>

\* onRetry(error, attempt)
OnRetryArguments(error) == <<error, attempt>>

\* return await fn(): fn is invoked and resolves
FnReturns ==
    /\ retryPc = "loop" /\ LoopContinues
    /\ \E v \in Results :
          /\ fnCalls' = Append(fnCalls, [attempt |-> attempt, ok |-> TRUE, outcome |-> v])
          /\ promise' = Fulfilled(v)
    /\ retryPc' = "settled"
    /\ UNCHANGED <<options, attempt, lastError, waitTime, shouldRetryCalls,
                   onRetryCalls, timers>>
    /\ UNCHANGED parserVars
    /\ UNCHANGED flowVars

\* await fn() rejects: the catch block, up to its throw or its first await
FnThrows ==
    /\ retryPc = "loop" /\ LoopContinues
    /\ \E error \in Errors, verdict \in BOOLEAN :
          /\ options.shouldRetry \/ verdict
          /\ fnCalls' = Append(fnCalls, [attempt |-> attempt, ok |-> FALSE,
                                         outcome |-> error])
          /\ lastError' = LastErrorAfter(error)
          /\ shouldRetryCalls' =
                IF options.shouldRetry
                THEN Append(shouldRetryCalls,
                            [error |-> error, attempt |-> attempt, result |-> verdict])
                ELSE shouldRetryCalls
          /\ IF Aborted(verdict)
             THEN /\ promise' = Rejected(RetryError(<<"Aborted", attempt, error.message>>,
                                                    error))
                  /\ retryPc' = "settled"
                  /\ UNCHANGED <<waitTime, onRetryCalls, timers>>
             ELSE IF attempt = options.retries
             THEN /\ promise' = Rejected(RetryError(<<"Failed", options.retries,
                                                      error.message>>, lastError'))
                  /\ retryPc' = "settled"
                  /\ UNCHANGED <<waitTime, onRetryCalls, timers>>
             ELSE /\ waitTime' = WaitTime(attempt)
                  /\ IF options.onRetry
                     THEN /\ onRetryCalls' = Append(onRetryCalls, OnRetryArguments(error))
                          /\ retryPc' = "onRetry"
                          /\ UNCHANGED timers
                     ELSE /\ timers' = Append(timers, waitTime')
                          /\ retryPc' = "timer"
                          /\ UNCHANGED onRetryCalls
                  /\ UNCHANGED promise
    /\ UNCHANGED <<options, attempt>>
    /\ UNCHANGED parserVars
    /\ UNCHANGED flowVars

\* await onRetry(error, attempt) resolves: the timer is set
OnRetryReturns ==
    /\ retryPc = "onRetry"
    /\ timers' = Append(timers, waitTime)
    /\ retryPc' = "timer"
    /\ UNCHANGED <<options, attempt, lastError, waitTime, promise, fnCalls,
                   shouldRetryCalls, onRetryCalls>>
    /\ UNCHANGED parserVars
    /\ UNCHANGED flowVars

\* await onRetry(error, attempt) rejects: the rejection leaves the catch block
OnRetryThrows ==
    /\ retryPc = "onRetry"
    /\ \E e \in Errors : promise' = Rejected(e)
    /\ retryPc' = "settled"
    /\ UNCHANGED <<options, attempt, lastError, waitTime, fnCalls, shouldRetryCalls,
                   onRetryCalls, timers>>
    /\ UNCHANGED parserVars
    /\ UNCHANGED flowVars

\* the setTimeout promise resolves: attempt++
TimerFires ==
    /\ retryPc = "timer"
    /\ attempt' = attempt + 1
    /\ retryPc' = "loop"
    /\ UNCHANGED <<options, lastError, waitTime, promise, fnCalls, shouldRetryCalls,
                   onRetryCalls, timers>>
    /\ UNCHANGED parserVars
    /\ UNCHANGED flowVars

\* the loop test fails: the function ends without a return statement
LoopEnds ==
    /\ retryPc = "loop" /\ ~LoopContinues
    /\ promise' = Fulfilled(Undefined)
    /\ retryPc' = "settled"
    /\ UNCHANGED <<options, attempt, lastError, waitTime, fnCalls, shouldRetryCalls,
                   onRetryCalls, timers>>
    /\ UNCHANGED parserVars
    /\ UNCHANGED flowVars

\* retry has not been called
RetryNotCalled ==
    /\ options = DefaultOptions
    /\ RetryStart

----------------------------------------------------------------------------
(* Specification of a run of findTableStructures over a worksheet *)

\* new ExcelParser(worksheet), at the call of findTableStructures
ParserStart ==
    /\ heap = <<>>
    /\ pc = "scan"
    /\ row = 0
    /\ currentTable = 0
    /\ tableId = 0
    /\ tables = <<>>
    /\ hierarchicalTables = <<>>
    /\ tableGroups = <<>>
    /\ mergedTables = <<>>
    /\ errors = <<>>
    /\ errorsEncountered = 0
    /\ returned = <<>>
    /\ groupsMap = NoGroups
    /\ dataGroups = NoGroups

\* the default configuration holds no errorHandling section: throwErrors is unset
Init ==
    /\ grid \in Worksheets
    /\ throwErrors = FALSE
    /\ ParserStart
    /\ RetryNotCalled
    /\ FlowStart

Next ==
    \/ OpenTable
    \/ CloseTable
    \/ ExtendTable
    \/ SkipRow
    \/ FinishScan
    \/ AnalyzeTableHierarchy
    \/ ProcessAndMergeTables

Spec == Init /\ [][Next]_vars

----------------------------------------------------------------------------
(* Specification of repeated calls of findTableStructures on one parser *)

\* FirstTableId when the counter of the previous call is kept
KeptTableId == tableId

\* let tableId = 0 (line 91)
FirstTableId == 0

\* a further call of findTableStructures on the same parser and worksheet: the
\* locals of the call are fresh, the tables of the earlier calls stay with the
\* caller
FindTableStructuresAgain ==
    /\ pc = "done"
    /\ Len(returned) < MaxCalls
    /\ pc' = "scan"
    /\ row' = 0
    /\ currentTable' = 0
    /\ tableId' = FirstTableId
    /\ tables' = <<>>
    /\ hierarchicalTables' = <<>>
    /\ tableGroups' = <<>>
    /\ mergedTables' = <<>>
    /\ UNCHANGED retryVars
    /\ UNCHANGED flowVars
    /\ UNCHANGED <<grid, heap, throwErrors, returned, groupsMap, dataGroups>>
    /\ NoError

\* worksheets made of the empty row, the two header rows and the full data row
TwiceWorksheets == [1..(LastRow + 1) -> 1..4]

InitTwice ==
    /\ grid \in TwiceWorksheets
    /\ throwErrors = FALSE
    /\ ParserStart
    /\ RetryNotCalled
    /\ FlowStart

NextTwice ==
    \/ Next
    \/ FindTableStructuresAgain

SpecTwice == InitTwice /\ [][NextTwice]_vars

----------------------------------------------------------------------------
(* Specification of findRelatedDataGroups with exceptions raised inside the    *)
(* phases, in lenient and in strict mode                                       *)

\* worksheets made of the empty row, the first header row and the full data row
ErrorWorksheets == [1..(LastRow + 1) -> {1, 2, 4}]

\* errorHandling.throwErrors is set or unset by the configuration files
InitErrors ==
    /\ grid \in ErrorWorksheets
    /\ throwErrors \in BOOLEAN
    /\ ParserStart
    /\ RetryNotCalled
    /\ FlowStart

NextErrors ==
    \/ Next
    \/ ScanThrows
    \/ HierarchyThrows
    \/ MergeThrows
    \/ CollectDataGroups
    \/ RelateDataGroups

SpecErrors == InitErrors /\ [][NextErrors]_vars

----------------------------------------------------------------------------
(* Specification of the error log of one parser over several runs, with         *)
(* exceptions raised inside the phases and calls of clearErrors between runs    *)

\* getErrors(): a copy of this.errors
GetErrors == errors

\* clearErrors(), called by the owner of the parser after a run has ended
ClearErrors ==
    /\ pc \in {"done", "thrown"}
    /\ errors' = <<>>
    /\ UNCHANGED <<grid, heap, pc, row, currentTable, tableId, tables,
                   hierarchicalTables, tableGroups, mergedTables, errorsEncountered,
                   throwErrors, returned, groupsMap, dataGroups>>
    /\ UNCHANGED retryVars
    /\ UNCHANGED flowVars

\* worksheets whose first two rows are empty rows or header rows, the rest empty
LogWorksheets ==
    {g \in [1..(LastRow + 1) -> {1, 2}] : \A r \in 3..(LastRow + 1) : g[r] = 1}

InitLog ==
    /\ grid \in LogWorksheets
    /\ throwErrors \in BOOLEAN
    /\ ParserStart
    /\ RetryNotCalled
    /\ FlowStart

NextLog ==
    \/ Next
    \/ ScanThrows
    \/ HierarchyThrows
    \/ MergeThrows
    \/ FindTableStructuresAgain
    \/ ClearErrors

SpecLog == InitLog /\ [][NextLog]_vars

----------------------------------------------------------------------------
(* Table lists handed directly to analyzeTableHierarchy and on to               *)
(* processAndMergeTables: tables as findBasicTables leaves them (finalized, no  *)
(* parent, no children), in row order, built from a layout that gives for each  *)
(* table its distance from the previous one, its extent, its first header       *)
(* column, its header texts and its data rows.                                  *)

\* headers of a header row at row r whose first header is in column indent
HeadersAt(r, indent, texts) ==
    [k \in 1..Len(texts) |->
        [row |-> r, column |-> indent + k - 1, value |-> Trim(texts[k]), level |-> 0]]

RECURSIVE BuildTables(_, _, _)
BuildTables(layout, k, prevEnd) ==
    IF k > Len(layout) THEN <<>>
    ELSE LET c == layout[k]
             startRow == prevEnd + c.gap
             endRow == startRow + c.len + Len(c.rows)
             open == [NewTable(startRow, k - 1, HeadersAt(startRow, c.indent, c.texts))
                         EXCEPT !.dataRows = c.rows]
         IN  <<FinalizeTable(open, endRow)>> \o BuildTables(layout, k + 1, endRow)

LayoutsOf(choices, count) == UNION {[1..n -> choices] : n \in 1..count}

\* stacked two-row tables, adjacent or one row apart, with different indentation
HierarchyLayouts ==
    LayoutsOf([gap : 1..2, len : {1}, indent : 0..MaxIndent,
               texts : {<<Qty>>}, rows : {<<>>}], MaxTables)

\* tables 2 or 5..MaxGap rows apart whose header rows share some, all or no headers
GroupLayouts ==
    LayoutsOf([gap : {2} \cup 5..MaxGap, len : {0}, indent : {0},
               texts : {<<Qty, ProductName>>, <<Qtys, Barcode>>, <<Barcode, Lot>>},
               rows : {<<>>}], MaxTables)

\* field-map of a data row under the headers of HeaderRowA
FieldMap(cells) ==
    LET texts == <<ProductName, Barcode, ExternalCode, Qty>>
    IN  [key \in {Trim(texts[k]) : k \in {j \in 1..4 : cells[j].t # "null"}} |->
            cells[CHOOSE k \in 1..4 : Trim(texts[k]) = key]]

RowPool ==
    {FieldMap(<<StrCell(Widget), StrCell(Code123), StrCell(Ext1), NumCell(5)>>),
     FieldMap(<<StrCell(Widget), StrCell(Code123), StrCell(Ext1), NumCell(6)>>),
     FieldMap(<<NullCell, StrCell(Code123), NullCell, NullCell>>)}

\* one or two tables with the same headers and up to MaxDataRows data rows each
DedupLayouts ==
    LayoutsOf([gap : {4}, len : {0}, indent : {0},
               texts : {<<ProductName, Barcode, ExternalCode, Qty>>},
               rows : UNION {[1..n -> RowPool] : n \in 0..MaxDataRows}], 2)

Layouts == HierarchyLayouts \cup GroupLayouts \cup DedupLayouts

InitTables ==
    /\ \E layout \in Layouts :
          /\ heap = BuildTables(layout, 1, -1)
          /\ tables = [k \in 1..Len(layout) |-> k]
          /\ tableId = Len(layout)
    /\ grid = <<>>
    /\ pc = "hierarchy"
    /\ row = LastRow + 1
    /\ currentTable = 0
    /\ hierarchicalTables = <<>>
    /\ tableGroups = <<>>
    /\ mergedTables = <<>>
    /\ errors = <<>>
    /\ errorsEncountered = 0
    /\ throwErrors = FALSE
    /\ returned = <<>>
    /\ groupsMap = NoGroups
    /\ dataGroups = NoGroups
    /\ RetryNotCalled
    /\ FlowStart

NextTables ==
    \/ AnalyzeTableHierarchy
    \/ ProcessAndMergeTables

SpecTables == InitTables /\ [][NextTables]_vars

----------------------------------------------------------------------------
(* Specification of findRelatedDataGroups over tables with product columns,    *)
(* date columns or neither                                                     *)

ShipDate == <<"S","h","i","p"," ","D","a","t","e">>
Date0101 == <<"2","0","2","4","-","0","1","-","0","1">>
Date0201 == <<"2","0","2","4","-","0","2","-","0","1">>

\* field-map of a data row under the headers texts
FieldMapOf(texts, cells) ==
    [key \in {Trim(texts[k]) : k \in {j \in 1..Len(texts) : cells[j].t # "null"}} |->
        cells[CHOOSE k \in 1..Len(texts) : Trim(texts[k]) = key]]

DateRowPool ==
    {FieldMapOf(<<ShipDate, Barcode>>, <<StrCell(Date0101), StrCell(Code123)>>),
     FieldMapOf(<<ShipDate, Barcode>>, <<StrCell(Date0201), NullCell>>),
     FieldMapOf(<<ShipDate, Barcode>>, <<NullCell, StrCell(Code123)>>)}

RowsOver(pool) == UNION {[1..n -> pool] : n \in 0..MaxDataRows}

\* one or two tables, each with a 'Product Name' column, a 'Ship Date' column or
\* neither, and up to MaxDataRows data rows
DataGroupLayouts ==
    LayoutsOf([gap : {4}, len : {0}, indent : {0},
               texts : {<<ProductName, Barcode, ExternalCode, Qty>>},
               rows : RowsOver(RowPool)]
              \cup [gap : {4}, len : {0}, indent : {0},
                    texts : {<<ShipDate, Barcode>>}, rows : RowsOver(DateRowPool)]
              \cup [gap : {4}, len : {0}, indent : {0},
                    texts : {<<Barcode, Lot>>}, rows : {<<>>}], 2)

InitGroups ==
    /\ \E layout \in DataGroupLayouts :
          /\ heap = BuildTables(layout, 1, -1)
          /\ tables = [k \in 1..Len(layout) |-> k]
          /\ tableId = Len(layout)
    /\ grid = <<>>
    /\ pc = "hierarchy"
    /\ row = LastRow + 1
    /\ currentTable = 0
    /\ hierarchicalTables = <<>>
    /\ tableGroups = <<>>
    /\ mergedTables = <<>>
    /\ errors = <<>>
    /\ errorsEncountered = 0
    /\ throwErrors = FALSE
    /\ returned = <<>>
    /\ groupsMap = NoGroups
    /\ dataGroups = NoGroups
    /\ RetryNotCalled
    /\ FlowStart

NextGroups ==
    \/ AnalyzeTableHierarchy
    \/ ProcessAndMergeTables
    \/ CollectDataGroups
    \/ RelateDataGroups

SpecGroups == InitGroups /\ [][NextGroups]_vars

----------------------------------------------------------------------------
(* Specification of hierarchy and merge over tables whose header rows name the *)
(* same columns differently                                                     *)

\* data rows of a two-column table with the header texts texts
RenamedRowPool(texts) ==
    {FieldMapOf(texts, <<StrCell(Widget), NumCell(5)>>),
     FieldMapOf(texts, <<NullCell, NumCell(6)>>)}

\* the cases of one table: its header texts and its data rows
RenamedCases ==
    UNION {[gap : {4}, len : {0}, indent : {0}, texts : {texts},
            rows : RowsOver(RenamedRowPool(texts))] :
               texts \in {<<ProductName, Qty>>, <<ProductName, Qtys>>, <<Lot, Qtys>>}}

\* one or two tables, four rows apart, with up to MaxDataRows data rows each
RenamedLayouts == LayoutsOf(RenamedCases, 2)

InitRenamed ==
    /\ \E layout \in RenamedLayouts :
          /\ heap = BuildTables(layout, 1, -1)
          /\ tables = [k \in 1..Len(layout) |-> k]
          /\ tableId = Len(layout)
    /\ grid = <<>>
    /\ pc = "hierarchy"
    /\ row = LastRow + 1
    /\ currentTable = 0
    /\ hierarchicalTables = <<>>
    /\ tableGroups = <<>>
    /\ mergedTables = <<>>
    /\ errors = <<>>
    /\ errorsEncountered = 0
    /\ throwErrors = FALSE
    /\ returned = <<>>
    /\ groupsMap = NoGroups
    /\ dataGroups = NoGroups
    /\ RetryNotCalled
    /\ FlowStart

SpecRenamed == InitRenamed /\ [][NextTables]_vars

----------------------------------------------------------------------------
(* Specification of one call of retry *)

\* retry(fn, options) is called; no parser is at work
InitRetry ==
    /\ options \in RetryOptions
    /\ RetryStart
    /\ grid = <<>>
    /\ throwErrors = FALSE
    /\ ParserStart
    /\ FlowStart

NextRetry ==
    \/ FnReturns
    \/ FnThrows
    \/ OnRetryReturns
    \/ OnRetryThrows
    \/ TimerFires
    \/ LoopEnds

SpecRetry == InitRetry /\ [][NextRetry]_vars

----------------------------------------------------------------------------
(* Specification of the runs of auto.js in one working directory *)

InitFlow ==
    /\ FlowStart
    /\ grid = <<>>
    /\ throwErrors = FALSE
    /\ ParserStart
    /\ RetryNotCalled

NextFlow ==
    \/ ApproveTransfer
    \/ CancelTransfer
    \/ WindowAllClosed
    \/ ConfirmationFails
    \/ OnClose
    \/ MainAfterConfirmation
    \/ MainCatches
    \/ StartAgain

SpecFlow == InitFlow /\ [][NextFlow]_vars

----------------------------------------------------------------------------
(* Properties of findBasicTables *)

\* rows r .. r + k - 1 exist and are all fully empty
BlankRun(r, k) == r + k - 1 <= LastRow /\ \A q \in r..(r + k - 1) : RowIsBlank(q)

\* row r is a single empty row between two non-empty rows
SingleBlankBetween(r) ==
    /\ r >= 1 /\ r < LastRow
    /\ RowIsBlank(r) /\ ~RowIsBlank(r - 1) /\ ~RowIsBlank(r + 1)

\* C1: whenever a table is active and the scan reaches the first row of a run of
\* two or more fully empty rows, that step finalizes the table with
\* endRow = the row before the run and leaves no table active, so that a header
\* row after the run opens a new table.
C1_BlankRunEndsTable ==
    [][(/\ Scanning /\ currentTable # 0
        /\ BlankRun(row, 2)
        /\ (row = 0 \/ ~RowIsBlank(row - 1)))
       => (/\ currentTable' = 0
           /\ tables' = Append(tables, currentTable)
           /\ heap'[currentTable].endRow = row - 1)]_vars

\* C2: a single fully empty row between two non-empty rows does not end the active
\* table (the step over it changes neither the table nor the result list), and the
\* step over the non-empty row after it extends the same table: endRow becomes that
\* row and, when it is a data row, its field-map is appended to dataRows.
C2_SingleBlankKeepsTable ==
    [][/\ (Scanning /\ currentTable # 0 /\ SingleBlankBetween(row))
          => (currentTable' = currentTable /\ tables' = tables /\ heap' = heap)
       /\ (Scanning /\ currentTable # 0 /\ row >= 1 /\ SingleBlankBetween(row - 1))
          => (/\ currentTable' = currentTable
              /\ tables' = tables
              /\ heap'[currentTable].endRow = row
              /\ heap'[currentTable].startRow = heap[currentTable].startRow
              /\ heap'[currentTable].dataRows =
                    IF AnalyzeRow(row).isDataRow
                    THEN Append(heap[currentTable].dataRows,
                                ExtractRowData(row, heap[currentTable].headers))
                    ELSE heap[currentTable].dataRows)]_vars

\* a table that holds a data row from before a single empty row and one from after it
C2_Witness ==
    /\ pc = "scan" /\ row >= 3 /\ currentTable # 0
    /\ SingleBlankBetween(row - 2)
    /\ heap[currentTable].startRow < row - 3
    /\ heap[currentTable].endRow = row - 1
    /\ Len(heap[currentTable].dataRows) = 2

\* the worksheet is one header row, then n non-blank rows, then only blank rows,
\* at least two of them
HeaderThenRows(n) ==
    /\ AnalyzeRow(0).isHeaderRow
    /\ \A r \in 1..n : ~RowIsBlank(r) /\ ~AnalyzeRow(r).isHeaderRow
    /\ n + 2 <= LastRow
    /\ \A r \in (n + 1)..LastRow : RowIsBlank(r)

\* C3: for a worksheet made of one header row, N contiguous non-blank data rows and
\* at least two blank rows, findBasicTables returns exactly one table, with
\* rowCount = N and one field-map per data row.
C3_RowCountIsN ==
    \A n \in 0..LastRow :
        (pc = "hierarchy" /\ HeaderThenRows(n))
        => (/\ Len(tables) = 1
            /\ heap[tables[1]].rowCount = n
            /\ Len(heap[tables[1]].dataRows) = n)


\* the cell holds a number, a boolean or a non-blank string without a letter
DataLikeCell(v) ==
    \/ v.t = "number"
    \/ v.t = "boolean"
    \/ v.t = "string" /\ Trim(v.s) # <<>> /\ ~HasLetter(v.s)

\* one header row, then n rows that each hold a data-like cell, then only blank
\* rows, at least two of them
HeaderThenDataRows(n) ==
    /\ AnalyzeRow(0).isHeaderRow
    /\ \A r \in 1..n : \E col \in 0..LastCol : DataLikeCell(GetCellValue(r, col))
    /\ n + 2 <= LastRow
    /\ \A r \in (n + 1)..LastRow : RowIsBlank(r)

\* C3 (amended): for a worksheet made of one header row, N contiguous rows that
\* each hold at least one number, boolean or letter-free non-blank string, and at
\* least two blank rows, findBasicTables returns exactly one table, with
\* rowCount = N and one field-map per data row, keyed by header texts.
C3_RowCountIsDataRows ==
    \A n \in 0..LastRow :
        (pc = "hierarchy" /\ HeaderThenDataRows(n))
        => (/\ Len(tables) = 1
            /\ heap[tables[1]].rowCount = n
            /\ Len(heap[tables[1]].dataRows) = n
            /\ \A k \in 1..n :
                  DOMAIN heap[tables[1]].dataRows[k] \subseteq
                      {heap[tables[1]].headers[m].value :
                          m \in 1..Len(heap[tables[1]].headers)})

\* a header row, two data rows (one of them with text cells) and two blank rows,
\* scanned
C3_Witness ==
    /\ pc = "hierarchy"
    /\ HeaderThenDataRows(2)
    /\ \E r \in 1..2 : AnalyzeRow(r).headerCount > 0
    /\ Len(tables) = 1
    /\ heap[tables[1]].rowCount = 2

----------------------------------------------------------------------------
(* Properties of analyzeTableHierarchy *)

FirstHeaderColumn(table) ==
    IF Len(table.headers) > 0 THEN table.headers[1].column ELSE 0

ElementsOf(seq) == {seq[k] : k \in 1..Len(seq)}

\* C4: after analyzeTableHierarchy, whenever B comes after A in the list,
\* B.startRow = A.endRow + 1 and B's first header column is greater than A's,
\* B.parent is A and A.children contains B.
C4_AdjacentIndentedIsChild ==
    pc = "merge" =>
        \A a, b \in 1..Len(tables) :
            (/\ a < b
             /\ heap[tables[b]].startRow = heap[tables[a]].endRow + 1
             /\ FirstHeaderColumn(heap[tables[b]]) > FirstHeaderColumn(heap[tables[a]]))
            => (/\ heap[tables[b]].parent = tables[a]
                /\ tables[b] \in ElementsOf(heap[tables[a]].children))

RECURSIVE ParentChainEnds(_, _)
\* following parent references from t for at most n steps reaches a table
\* without parent
ParentChainEnds(t, n) ==
    IF heap[t].parent = 0 THEN TRUE
    ELSE IF n = 0 THEN FALSE
    ELSE ParentChainEnds(heap[t].parent, n - 1)

\* C5: after analyzeTableHierarchy the parent/child graph is a forest: no cycle,
\* every table occurs at most once in the children lists, only in the list of its
\* parent, and level is 0 without parent and parent.level + 1 otherwise.
C5_HierarchyIsForest ==
    pc \in {"merge", "done"} =>
        /\ \A t \in DOMAIN heap : ParentChainEnds(t, Len(heap))
        /\ \A p, t \in DOMAIN heap :
              /\ Cardinality({k \in 1..Len(heap[p].children) : heap[p].children[k] = t}) <= 1
              /\ t \in ElementsOf(heap[p].children) => heap[t].parent = p
        /\ \A t \in DOMAIN heap :
              heap[t].level = IF heap[t].parent = 0 THEN 0
                              ELSE heap[heap[t].parent].level + 1

\* a list of three tables in which a table was given a parent and a table
\* adjacent to that child was not
C5_Witness ==
    /\ pc = "merge"
    /\ Len(tables) = 3
    /\ heap[tables[2]].parent = tables[1]
    /\ heap[tables[3]].startRow = heap[tables[2]].endRow + 1
    /\ heap[tables[3]].parent = 0

\* C6: on the tables of findBasicTables, validateTableHierarchy never throws the
\* circular-reference error: the error log never holds a 'hierarchy-analysis'
\* entry and analyzeTableHierarchy returns the list it built.
C6_NoCircularReferenceError ==
    /\ \A k \in 1..Len(errors) : errors[k] # "hierarchy-analysis"
    /\ pc \in {"merge", "done"} =>
          ~ValidateTableHierarchyThrows(heap, hierarchicalTables)

\* hierarchy analysis has run on two tables found in one worksheet
C6_Witness ==
    /\ pc = "merge"
    /\ grid # <<>>
    /\ Len(tables) = 2
    /\ hierarchicalTables = tables
    /\ heap[tables[1]].id # heap[tables[2]].id


----------------------------------------------------------------------------
(* Properties of processAndMergeTables *)

\* the number of header pairs, one header from each table, that are similar
SimilarPairs(t, u) ==
    Cardinality({p \in (1..Len(t.headers)) \X (1..Len(u.headers)) :
                    AreHeadersSimilar(t.headers[p[1]], u.headers[p[2]])})

\* at least 0.5 x min(headerCount(t), headerCount(u)) header pairs are similar
HeadersAlike(t, u) == 2 * SimilarPairs(t, u) >= Min(Len(t.headers), Len(u.headers))

\* some group holds both tables
SameGroup(groups, t, u) ==
    \E g \in 1..Len(groups) : t \in ElementsOf(groups[g]) /\ u \in ElementsOf(groups[g])

\* C7: in the list given to processAndMergeTables, two tables T and U (U later)
\* with U.startRow - T.endRow <= 5 and at least 0.5 x min(headerCount) similar
\* header pairs end in the same group, hence in the same output table, whatever
\* other tables the list holds.
C7_RelatedTablesMerge ==
    [][pc = "merge" =>
          \A i, j \in 1..Len(hierarchicalTables) :
              LET t == hierarchicalTables[i]
                  u == hierarchicalTables[j]
              IN  (/\ i < j
                   /\ heap[u].startRow - heap[t].endRow <= 5
                   /\ HeadersAlike(heap[t], heap[u]))
                  => SameGroup(tableGroups', t, u)]_vars

\* table b is within 5 rows of table a, before or after, and their headers are alike
RelatedTo(a, b) ==
    /\ Abs(b.startRow - a.endRow) <= 5
    /\ HeadersAlike(a, b)

\* C7 (amended): two tables T and U (U later) with |U.startRow - T.endRow| <= 5
\* and at least 0.5 x min(headerCount) similar header pairs end in the same group,
\* hence in the same output table, provided no table earlier in the list than T
\* is related in that way to T or to U.
C7_RelatedTablesMergeUnlessClaimed ==
    [][pc = "merge" =>
          \A i, j \in 1..Len(hierarchicalTables) :
              LET t == hierarchicalTables[i]
                  u == hierarchicalTables[j]
              IN  (/\ i < j
                   /\ RelatedTo(heap[t], heap[u])
                   /\ \A k \in 1..(i - 1) :
                         /\ ~RelatedTo(heap[hierarchicalTables[k]], heap[t])
                         /\ ~RelatedTo(heap[hierarchicalTables[k]], heap[u]))
                  => (/\ SameGroup(tableGroups', t, u)
                      /\ \E g \in 1..Len(tableGroups') :
                            mergedTables'[g] = t /\ tableGroups'[g][1] = t)]_vars

\* three tables of which the first and the third were merged around the second
C7_Witness ==
    /\ pc = "done"
    /\ Len(hierarchicalTables) = 3
    /\ tableGroups = <<<<hierarchicalTables[1], hierarchicalTables[3]>>,
                       <<hierarchicalTables[2]>>>>
    /\ heap[hierarchicalTables[1]].endRow = heap[hierarchicalTables[3]].endRow

\* more than 70% of the fields of row a have the identical value in row b
Over70(a, b) ==
    LET same == {k \in DOMAIN a : k \in DOMAIN b /\ a[k] = b[k]}
    IN  Cardinality(same) * 10 > 7 * Cardinality(DOMAIN a)

\* C8: after processAndMergeTables, in every returned table, for every pair of
\* distinct data rows and whichever row the fraction is computed over, at most 70%
\* of that row's fields have the identical value in the other row.
C8_NoTwoRowsShare70 ==
    pc = "done" =>
        \A g \in 1..Len(mergedTables) :
            LET rows == heap[mergedTables[g]].dataRows
            IN  \A i, j \in 1..Len(rows) : i # j => ~Over70(rows[i], rows[j])

\* C8 (amended): after processAndMergeTables, in every returned table, for every
\* pair of data rows, at most 70% of the fields of the later row have the identical
\* value in the earlier row.
C8_LaterRowSharesAtMost70 ==
    pc = "done" =>
        \A g \in 1..Len(mergedTables) :
            LET rows == heap[mergedTables[g]].dataRows
            IN  \A i, j \in 1..Len(rows) : i < j => ~Over70(rows[j], rows[i])

\* a returned table that lost a row to the deduplication and kept two rows of
\* which the later one shares some but not all fields with the earlier one
C8_Witness ==
    /\ pc = "done"
    /\ \E g \in 1..Len(mergedTables) :
          LET t == heap[mergedTables[g]]
              given == t.rowCount + (IF Len(tableGroups[g]) = 1 THEN 0
                                     ELSE Len(heap[tableGroups[g][2]].dataRows))
          IN  /\ Len(t.dataRows) = 2
              /\ given > 2
              /\ \E k \in DOMAIN t.dataRows[2] :
                    k \in DOMAIN t.dataRows[1] /\ t.dataRows[1][k] = t.dataRows[2][k]

RECURSIVE ConcatRows(_, _, _)
\* the data rows of the members of a group, from member i on, in group order
ConcatRows(h, group, i) ==
    IF i > Len(group) THEN <<>>
    ELSE h[group[i]].dataRows \o ConcatRows(h, group, i + 1)

RECURSIVE KeptRows(_, _, _)
\* scanning rows in order from k: a row is dropped iff some row kept so far has
\* identical values for more than 70% of the row's own fields
KeptRows(rows, k, kept) ==
    IF k > Len(rows) THEN kept
    ELSE IF \E m \in 1..Len(kept) : Over70(rows[k], kept[m])
         THEN KeptRows(rows, k + 1, kept)
    ELSE KeptRows(rows, k + 1, Append(kept, rows[k]))

\* C9: for every group, the surviving table is the first member and its dataRows
\* are the members' dataRows concatenated in group order with the rows dropped that
\* share more than 70% of their own fields with an already kept row (so their
\* number is the sum of the members' row counts minus the rows so dropped).
C9_MergedRowsAreKeptRowsOfConcat ==
    [][pc = "merge" =>
          /\ Len(mergedTables') = Len(tableGroups')
          /\ \A g \in 1..Len(tableGroups') :
                LET all == ConcatRows(heap, tableGroups'[g], 1)
                    kept == KeptRows(all, 1, <<>>)
                IN  /\ mergedTables'[g] = tableGroups'[g][1]
                    /\ heap'[mergedTables'[g]].dataRows = kept]_vars

\* a group of two tables, both with data rows, whose surviving table holds rows of
\* both members and fewer rows than the two had together
C9_Witness ==
    /\ pc = "done"
    /\ \E g \in 1..Len(tableGroups) :
          LET base == heap[tableGroups[g][1]]
          IN  /\ Len(tableGroups[g]) = 2
              /\ base.rowCount > 0
              /\ Len(heap[tableGroups[g][2]].dataRows) > 0
              /\ Len(base.dataRows) > base.rowCount
              /\ Len(base.dataRows) < base.rowCount + Len(heap[tableGroups[g][2]].dataRows)

\* C10: in every table returned by findTableStructures no two headers of the table
\* are similar above the configured threshold.
C10_HeadersDistinguishable ==
    pc = "done" =>
        \A g \in 1..Len(mergedTables) :
            LET hs == heap[mergedTables[g]].headers
            IN  \A i, j \in 1..Len(hs) : i < j => ~AreHeadersSimilar(hs[i], hs[j])

----------------------------------------------------------------------------
(* Invariants of the table records *)

\* C11: every table has startRow <= endRow at every point of the pipeline: while
\* findBasicTables builds it, once it is finalized, after analyzeTableHierarchy and
\* after mergeTables.
C11_StartRowAtMostEndRow ==
    \A t \in DOMAIN heap : heap[t].startRow <= heap[t].endRow

\* the run is over, and a table absorbed a later table and took over its endRow
C11_Witness ==
    /\ pc = "done"
    /\ grid # <<>>
    /\ \E g \in 1..Len(tableGroups) :
          /\ Len(tableGroups[g]) > 1
          /\ heap[tableGroups[g][1]].startRow < heap[tableGroups[g][1]].endRow
          /\ heap[tableGroups[g][1]].endRow = heap[tableGroups[g][2]].endRow

----------------------------------------------------------------------------
(* Repeated runs *)

RECURSIVE Shape(_, _)
\* the structure of a table and of the tables below it, without object identities
Shape(h, t) ==
    [id |-> h[t].id,
     startRow |-> h[t].startRow,
     endRow |-> h[t].endRow,
     headers |-> h[t].headers,
     dataRows |-> h[t].dataRows,
     rowCount |-> h[t].rowCount,
     level |-> h[t].level,
     metadata |-> h[t].metadata,
     parentId |-> IF h[t].parent = 0 THEN -1 ELSE h[h[t].parent].id,
     children |-> [k \in 1..Len(h[t].children) |-> Shape(h, h[t].children[k])]]

\* C12: the lists returned by any two calls of findTableStructures on the same
\* parser and grid hold the same number of tables, and tables at the same position
\* have the same id, row range, headers, data rows and parent/child structure.
C12_RunsAreStructurallyIdentical ==
    \A i, j \in 1..Len(returned) :
        /\ Len(returned[i]) = Len(returned[j])
        /\ \A k \in 1..Len(returned[i]) :
              Shape(heap, returned[i][k]) = Shape(heap, returned[j][k])

\* two calls have returned; the first one merged two tables in place and the
\* second one returned other objects
C12_Witness ==
    /\ Len(returned) = 2
    /\ \E k \in 1..Len(returned[1]) :
          /\ returned[1][k] # returned[2][k]
          /\ Len(heap[returned[1][k]].headers) > 4
          /\ heap[returned[1][k]].endRow > heap[returned[1][k]].startRow

----------------------------------------------------------------------------
(* Properties of the error handling *)

\* the entries a step has appended to the error log
NewEntries == SubSeq(errors', Len(errors) + 1, Len(errors'))

\* C13: in lenient mode (throwErrors unset) an exception raised inside a phase
\* never escapes: the step that catches it leaves the phase with its fallback
\* ([] for basic-table-detection, the input list for hierarchy-analysis and
\* table-merging, an empty map for data-grouping) as the input of the next phase,
\* which is the position the run is then in.
C13_LenientPhaseFallsBack ==
    [][(~throwErrors /\ errors' # errors) =>
          /\ Len(NewEntries) = 1
          /\ pc' # "thrown"
          /\ NewEntries[1] = "basic-table-detection" =>
                pc = "scan" /\ pc' = "hierarchy" /\ tables' = <<>>
          /\ NewEntries[1] = "hierarchy-analysis" =>
                pc = "hierarchy" /\ pc' = "merge" /\ hierarchicalTables' = tables
          /\ NewEntries[1] = "table-merging" =>
                /\ pc = "merge" /\ pc' = "done"
                /\ mergedTables' = hierarchicalTables
                /\ returned' = Append(returned, hierarchicalTables)
          /\ NewEntries[1] = "data-grouping" =>
                pc = "related" /\ pc' = "returned" /\ dataGroups' = NoGroups
          /\ NewEntries[1] # "table-detection"]_vars

\* a lenient run in which hierarchy analysis failed on two tables, the merge ran
\* on the list it fell back to and data grouping failed after it
C13_Witness ==
    /\ ~throwErrors
    /\ pc = "returned"
    /\ errors = <<"hierarchy-analysis", "data-grouping">>
    /\ Len(tables) = 2
    /\ hierarchicalTables = tables
    /\ Len(mergedTables) = 1

\* C14: no phase returns its fallback silently: a step that leaves a phase with
\* anything but the value its try block computes appends an entry naming that
\* phase and increments the error counter, and every step keeps the entries the
\* log already holds, the counter growing by the number of entries appended.
C14_FallbackIsRecorded ==
    [][/\ Len(errors') >= Len(errors)
       /\ SubSeq(errors', 1, Len(errors)) = errors
       /\ errorsEncountered' = errorsEncountered + Len(NewEntries)
       /\ (pc = "scan" /\ pc' = "hierarchy" /\ row <= LastRow) =>
             NewEntries = <<"basic-table-detection">>
       /\ (pc = "hierarchy" /\ pc' = "merge"
             /\ hierarchicalTables' # BuildHierarchy(heap, tables, 1, {}, <<>>).result) =>
             NewEntries = <<"hierarchy-analysis">>
       /\ (pc = "merge" /\ pc' = "done"
             /\ \/ mergedTables' # ProcessAndMergeTablesResult(heap, hierarchicalTables).result
                \/ heap' # ProcessAndMergeTablesResult(heap, hierarchicalTables).heap) =>
             NewEntries = <<"table-merging">>
       /\ (pc = "related" /\ pc' = "returned" /\ dataGroups' # groupsMap) =>
             NewEntries = <<"data-grouping">>]_vars

\* a lenient run in which the merge fell back to its two input tables and data
\* grouping fell back to the empty map, both recorded
C14_Witness ==
    /\ pc = "returned"
    /\ errors = <<"table-merging", "data-grouping">>
    /\ errorsEncountered = 2
    /\ Len(mergedTables) = 2
    /\ groupsMap # NoGroups
    /\ dataGroups = NoGroups

\* C15: with throwErrors set, the step that catches an exception records it and
\* throws it again, so that the call is aborted and returns nothing (an exception
\* raised in a phase of findTableStructures passes through the catch block of
\* findTableStructures, which records it as 'table-detection' and throws it
\* again); with throwErrors unset no step ends in a thrown exception.
C15_RethrowIsGatedByThrowErrors ==
    [][/\ (throwErrors /\ errors' # errors) =>
             /\ pc' = "thrown"
             /\ returned' = returned /\ dataGroups' = dataGroups
             /\ \/ pc = "related" /\ NewEntries = <<"data-grouping">>
                \/ /\ pc \in {"scan", "hierarchy", "merge"}
                   /\ Len(NewEntries) = 2
                   /\ NewEntries[1] \in {"basic-table-detection", "hierarchy-analysis",
                                         "table-merging"}
                   /\ NewEntries[2] = "table-detection"
       /\ pc' = "thrown" => throwErrors /\ errors' # errors
       /\ pc = "thrown" => pc' = "thrown"]_vars

\* a strict run aborted by an exception raised while two tables were merged
C15_Witness ==
    /\ throwErrors
    /\ pc = "thrown"
    /\ errors = <<"table-merging", "table-detection">>
    /\ Len(hierarchicalTables) = 2
    /\ returned = <<>>

----------------------------------------------------------------------------
(* Properties of findRelatedDataGroups *)

\* the headers of the returned tables whose lower-cased text contains the word,
\* as pairs <<table, index of the header>>
HeadersWith(word) ==
    {p \in ElementsOf(mergedTables) \X (1..LastCol + MaxTables + 2) :
        /\ p[2] <= Len(heap[p[1]].headers)
        /\ Includes(ToLowerCase(heap[p[1]].headers[p[2]].value), word)}

\* the map holds a group of that name with one location per such header
HoldsGroup(map, name, word) ==
    /\ name \in DOMAIN map
    /\ Len(map[name].locations) = Cardinality(HeadersWith(word))
    /\ \A p \in HeadersWith(word) :
          \E k \in 1..Len(map[name].locations) :
              map[name].locations[k] =
                  [row |-> heap[p[1]].startRow,
                   col |-> heap[p[1]].headers[p[2]].column,
                   table |-> p[1]]

\* C16: the map returned by findRelatedDataGroups holds the group 'product'
\* (respectively 'date') whenever some merged table has a header whose lower-cased
\* text contains 'product' (respectively 'date'), with one location (row, column,
\* owning table) per such header, and holds no group that no header matches.
C16_ReturnedGroupsMatchHeaders ==
    pc = "returned" =>
        /\ HeadersWith(ProductWord) # {} => HoldsGroup(dataGroups, "product", ProductWord)
        /\ HeadersWith(DateWord) # {} => HoldsGroup(dataGroups, "date", DateWord)
        /\ HeadersWith(ProductWord) = {} => "product" \notin DOMAIN dataGroups
        /\ HeadersWith(DateWord) = {} => "date" \notin DOMAIN dataGroups

\* C17: for every returned table and grouped header for which extractDataPattern
\* yields a pattern, hasNulls is true exactly when at least one data row of the
\* table has no value for that header.
C17_HasNullsIffValueAbsent ==
    pc = "related" =>
        \A t \in ElementsOf(mergedTables) :
            \A k \in 1..Len(heap[t].headers) :
                LET header == heap[t].headers[k]
                    absent == \E r \in 1..Len(heap[t].dataRows) :
                                  header.value \notin DOMAIN heap[t].dataRows[r]
                IN  (IdentifyDataGroup(header.value) # "null" /\ ~NoPattern(heap[t], header))
                    => /\ ExtractDataPattern(heap[t], header) \in
                             ElementsOf(groupsMap[IdentifyDataGroup(header.value)].patterns)
                       /\ ExtractDataPattern(heap[t], header).hasNulls = absent

----------------------------------------------------------------------------
(* Labels, content type and grouping *)

\* C18: after analyzeTableHierarchy every table of the input list, the tables that
\* were given a parent included, has metadata.relationshipType 'parent' if it has
\* children, otherwise 'child' if it has a parent, otherwise 'independent'.
C18_EveryTableIsLabelled ==
    pc = "merge" =>
        \A t \in ElementsOf(tables) :
            heap[t].metadata.relationshipType =
                IF Len(heap[t].children) > 0 THEN "parent"
                ELSE IF heap[t].parent # 0 THEN "child"
                ELSE "independent"

\* some value of some data row of the table is a number
AnyRowHoldsNumber(table) ==
    \E r \in 1..Len(table.dataRows) :
        \E k \in DOMAIN table.dataRows[r] : table.dataRows[r][k].t = "number"

\* C19: a finalized table has metadata.contentType 'numeric' if any value of any
\* of its extracted data rows is a number, and 'text' otherwise, also when it has no
\* data rows.
C19_ContentTypeFromAnyRow ==
    pc \in {"scan", "hierarchy", "merge"} =>
        \A t \in ElementsOf(tables) :
            heap[t].metadata.contentType =
                IF AnyRowHoldsNumber(heap[t]) THEN "numeric" ELSE "text"

\* C19 (amended): a finalized table has metadata.contentType 'unknown' if it has
\* no data rows, otherwise 'numeric' if some value of its first extracted data row
\* is a number, and 'text' otherwise.
C19_ContentTypeFromFirstRow ==
    pc \in {"scan", "hierarchy", "merge"} =>
        \A t \in ElementsOf(tables) :
            heap[t].metadata.contentType =
                IF Len(heap[t].dataRows) = 0 THEN "unknown"
                ELSE IF \E k \in DOMAIN heap[t].dataRows[1] :
                            heap[t].dataRows[1][k].t = "number"
                     THEN "numeric"
                ELSE "text"

\* a finalized table whose first data row holds no number and whose second one does
C19_Witness ==
    /\ pc = "hierarchy"
    /\ \E t \in ElementsOf(tables) :
          /\ heap[t].rowCount = 2
          /\ \A k \in DOMAIN heap[t].dataRows[1] : heap[t].dataRows[1][k].t # "number"
          /\ \E k \in DOMAIN heap[t].dataRows[2] : heap[t].dataRows[2][k].t = "number"
          /\ heap[t].metadata.contentType = "text"

\* the test of the claim for table j joining the group seeded by table i:
\* U.startRow - T.endRow <= 5 and at least 0.5 x min(headerCount) similar pairs
Joins(i, j) ==
    LET t == heap[hierarchicalTables[i]]
        u == heap[hierarchicalTables[j]]
    IN  u.startRow - t.endRow <= 5 /\ HeadersAlike(t, u)

\* position in the list of the table a reference points to
PositionOf(list, t) == CHOOSE k \in 1..Len(list) : list[k] = t

\* C20: groupRelatedTables partitions its input greedily: a table seeds a group
\* iff it joins no seed before it; a later table is in the group of seed T iff it
\* joins T and joins no seed before T; groups are in seed order, members in list
\* order, and every table of the input is in exactly one group, once.
C20_GroupsAreGreedyPartition ==
    [][pc = "merge" /\ pc' = "done" /\ errors' = errors =>
          LET n == Len(hierarchicalTables)
              seedOf == [g \in 1..Len(tableGroups') |->
                            PositionOf(hierarchicalTables, tableGroups'[g][1])]
              seeds == {seedOf[g] : g \in 1..Len(tableGroups')}
              members(g) == {PositionOf(hierarchicalTables, tableGroups'[g][k]) :
                                k \in 1..Len(tableGroups'[g])}
          IN  /\ \A j \in 1..n :
                    Cardinality({g \in 1..Len(tableGroups') : j \in members(g)}) = 1
              /\ \A g \in 1..Len(tableGroups') :
                    /\ Len(tableGroups'[g]) = Cardinality(members(g))
                    /\ \A k \in 1..(Len(tableGroups'[g]) - 1) :
                          PositionOf(hierarchicalTables, tableGroups'[g][k])
                              < PositionOf(hierarchicalTables, tableGroups'[g][k + 1])
                    /\ \A g2 \in 1..Len(tableGroups') : g < g2 => seedOf[g] < seedOf[g2]
              /\ \A j \in 1..n :
                    j \in seeds <=> \A i \in seeds : i < j => ~Joins(i, j)
              /\ \A g \in 1..Len(tableGroups') : \A j \in (1..n) \ {seedOf[g]} :
                    j \in members(g) <=>
                        /\ seedOf[g] < j
                        /\ Joins(seedOf[g], j)
                        /\ \A i \in seeds : i < seedOf[g] => ~Joins(i, j)]_vars

\* three tables: the second joined the first, the third is related to the second
\* but not to the first and is a group of its own
C20_Witness ==
    /\ pc = "done"
    /\ Len(hierarchicalTables) = 3
    /\ tableGroups = <<<<hierarchicalTables[1], hierarchicalTables[2]>>,
                       <<hierarchicalTables[3]>>>>
    /\ RelatedTo(heap[hierarchicalTables[2]], heap[hierarchicalTables[3]])

----------------------------------------------------------------------------
(* Frame of the merge *)

\* C21: processAndMergeTables changes no table but the first member of each
\* group: every absorbed member keeps its headers, dataRows, startRow and endRow
\* (and every other field), and the returned list holds exactly one table per
\* group, the first member, and no absorbed table.
C21_MergeMutatesOnlyFirstMember ==
    [][pc = "merge" /\ pc' = "done" /\ errors' = errors =>
          LET firsts == {tableGroups'[g][1] : g \in 1..Len(tableGroups')}
          IN  /\ \A t \in DOMAIN heap : t \notin firsts => heap'[t] = heap[t]
              /\ \A t \in firsts : heap'[t].startRow = heap[t].startRow
              /\ Len(mergedTables') = Len(tableGroups')
              /\ \A g \in 1..Len(tableGroups') :
                    /\ mergedTables'[g] = tableGroups'[g][1]
                    /\ \A k \in 2..Len(tableGroups'[g]) :
                          tableGroups'[g][k] \notin ElementsOf(mergedTables')]_vars

\* a table with data rows was absorbed: it still has them, and the returned list
\* is shorter than the list that was merged
C21_Witness ==
    /\ pc = "done"
    /\ Len(mergedTables) < Len(hierarchicalTables)
    /\ \E g \in 1..Len(tableGroups) :
          /\ Len(tableGroups[g]) = 2
          /\ Len(heap[tableGroups[g][2]].dataRows) = MaxDataRows
          /\ heap[tableGroups[g][2]].rowCount = MaxDataRows
          /\ heap[tableGroups[g][1]].endRow = heap[tableGroups[g][2]].endRow

----------------------------------------------------------------------------
(* A grid without a header row *)

NoHeaderRow == \A r \in 0..LastRow : ~AnalyzeRow(r).isHeaderRow

\* C22: when no row of the grid is a header row (no row has two header-like
\* cells), the finished run has recorded an error entry: it does not end with an
\* empty table list and an empty error log.
C22_NoHeaderRowIsRecorded ==
    (pc = "done" /\ NoHeaderRow) => (errors # <<>> /\ errorsEncountered > 0)

----------------------------------------------------------------------------
(* retry *)

\* C23: fn is invoked one call after the other, at most options.retries times,
\* and never again after an invocation that succeeded: a successful invocation
\* is the last one, and the promise is fulfilled with its result.
C23_FnInvokedUntilFirstSuccess ==
    /\ Len(fnCalls) <= options.retries
    /\ \A i \in DOMAIN fnCalls : fnCalls[i].attempt = i
    /\ \A i \in DOMAIN fnCalls :
          fnCalls[i].ok =>
              /\ i = Len(fnCalls)
              /\ retryPc = "settled"
              /\ promise = Fulfilled(fnCalls[i].outcome)

\* fn failed on every attempt but the last allowed one, which succeeded
C23_Witness ==
    /\ options.retries = MaxRetries
    /\ Len(fnCalls) = MaxRetries
    /\ fnCalls[MaxRetries].ok
    /\ promise.state = "fulfilled"

\* retries >= 1, fn was invoked retries times and failed each time, and
\* shouldRetry never returned false
AllAttemptsFailed ==
    /\ options.retries >= 1
    /\ Len(fnCalls) = options.retries
    /\ \A i \in DOMAIN fnCalls : ~fnCalls[i].ok
    /\ \A j \in DOMAIN shouldRetryCalls : shouldRetryCalls[j].result

\* C24: when all options.retries attempts have failed, the promise is rejected
\* with a RetryError whose lastError is the error of the final attempt; the
\* error itself is not the rejection.
C24_ExhaustionRejectsWithRetryError ==
    AllAttemptsFailed =>
        /\ retryPc = "settled"
        /\ promise.state = "rejected"
        /\ promise.reason.name = "RetryError"
        /\ promise.reason.lastError = fnCalls[options.retries].outcome
        /\ promise.reason \notin Errors

\* three attempts failed, the first and the last with different errors
C24_Witness ==
    /\ AllAttemptsFailed
    /\ options.retries = MaxRetries
    /\ fnCalls[1].outcome # fnCalls[MaxRetries].outcome
    /\ promise.state = "rejected"
    /\ promise.reason.lastError = fnCalls[MaxRetries].outcome

\* C25: when shouldRetry has returned false for a failed attempt, retry has
\* aborted: the promise is rejected with a RetryError carrying that attempt's
\* error, fn has not been invoked after that attempt, onRetry has not been
\* called for it and no timer has been set for it.
C25_ShouldRetryFalseAborts ==
    \A j \in DOMAIN shouldRetryCalls :
        ~shouldRetryCalls[j].result =>
            LET c == shouldRetryCalls[j]
            IN  /\ j = Len(shouldRetryCalls)
                /\ retryPc = "settled"
                /\ promise.state = "rejected"
                /\ promise.reason.name = "RetryError"
                /\ promise.reason.lastError = c.error
                /\ Len(fnCalls) = c.attempt
                /\ fnCalls[c.attempt].outcome = c.error
                /\ \A k \in DOMAIN onRetryCalls : onRetryCalls[k][2] # c.attempt
                /\ Len(timers) = c.attempt - 1

\* shouldRetry allowed the first retry and refused the second, with onRetry given
C25_Witness ==
    /\ options.onRetry
    /\ Len(shouldRetryCalls) = 2
    /\ shouldRetryCalls[1].result /\ ~shouldRetryCalls[2].result
    /\ Len(onRetryCalls) = 1
    /\ retryPc = "settled"

FollowedByRetry(i) ==
    /\ ~fnCalls[i].ok
    /\ i < options.retries
    /\ \A j \in DOMAIN shouldRetryCalls :
          shouldRetryCalls[j].attempt = i => shouldRetryCalls[j].result

C27_WaitNeverExceedsMaxDelay ==
    \A k \in DOMAIN timers :
        /\ timers[k] <= options.maxDelay
        /\ options.exponential =>
              timers[k] = Min(options.delay * 2 ^ (k - 1), options.maxDelay)

----------------------------------------------------------------------------
(* Tables of a worksheet run are never nested *)

----------------------------------------------------------------------------
(* rowCount and the keys of the data rows after the merge *)

\* C29: every table returned by findTableStructures has rowCount equal to the
\* number of its dataRows, also a table that absorbed other tables and a table
\* from which duplicate rows were removed.
C29_RowCountIsLengthOfDataRows ==
    pc = "done" =>
        \A t \in ElementsOf(mergedTables) : heap[t].rowCount = Len(heap[t].dataRows)

\* the texts of the headers of a table
HeaderTexts(table) == {table.headers[k].value : k \in 1..Len(table.headers)}

\* C30: in every table returned by findTableStructures each key of each data
\* row is the text of one of the table's headers, in merged tables as in
\* unmerged ones.
C30_RowKeysAreHeaderTexts ==
    pc = "done" =>
        \A t \in ElementsOf(mergedTables) :
            \A r \in 1..Len(heap[t].dataRows) :
                DOMAIN heap[t].dataRows[r] \subseteq HeaderTexts(heap[t])

----------------------------------------------------------------------------
(* The error log and the error counter *)

\* C31: in every state of a parser, after any runs, phase failures and calls of
\* clearErrors, performanceMetrics.errorsEncountered is the number of entries
\* getErrors() returns.
C31_CounterIsLengthOfLog == errorsEncountered = Len(GetErrors)

\* C31 (amended): every step either empties the log and leaves the counter
\* (clearErrors), or appends to the log as many entries as it adds to the
\* counter; the counter is the number of handleError calls since construction
\* and is never below the length of the log.
C31_CounterCountsEveryRecordedError ==
    [][/\ \/ errors' = <<>> /\ errorsEncountered' = errorsEncountered
          \/ /\ Len(errors') >= Len(errors)
             /\ SubSeq(errors', 1, Len(errors)) = errors
             /\ errorsEncountered' - errorsEncountered = Len(errors') - Len(errors)
       /\ errorsEncountered' >= Len(errors')]_vars

\* an error was recorded, the log was cleared, and a later run recorded another
C31_Witness ==
    /\ Len(returned) >= 1
    /\ Len(GetErrors) = 1
    /\ errorsEncountered = 2

----------------------------------------------------------------------------
(* analyzeTableHierarchy loses no table *)

\* the elements of the returned list that hold t in their children list
ParentsInResult(t) ==
    {p \in ElementsOf(hierarchicalTables) : t \in ElementsOf(heap[p].children)}

\* C32: when analyzeTableHierarchy has returned without an error, every table
\* of the input list is either an element of the returned list or a child of
\* exactly one element of it, never both and never neither, and the returned
\* list is the list of the tables without parent, in input order.
C32_HierarchyLosesNoTable ==
    (pc = "merge" /\ errors = <<>>) =>
        /\ \A t \in ElementsOf(tables) :
              IF t \in ElementsOf(hierarchicalTables)
              THEN ParentsInResult(t) = {}
              ELSE /\ Cardinality(ParentsInResult(t)) = 1
                   /\ \A p \in ParentsInResult(t) :
                         Cardinality({k \in 1..Len(heap[p].children) :
                                         heap[p].children[k] = t}) = 1
        /\ hierarchicalTables = SelectSeq(tables, LAMBDA t : heap[t].parent = 0)

\* of three tables the second became a child of the first and the third stayed
\* a root: the returned list holds the first and the third
C32_Witness ==
    /\ pc = "merge" /\ errors = <<>>
    /\ Len(tables) = 3
    /\ hierarchicalTables = <<tables[1], tables[3]>>
    /\ heap[tables[1]].children = <<tables[2]>>

----------------------------------------------------------------------------
(* How a call of retry can end *)

\* C33: a settled call of retry is either fulfilled with the result of a
\* successful invocation of fn or rejected with a RetryError: it is never
\* fulfilled without fn having succeeded and never rejected with another error.
C33_SettlesWithResultOrRetryError ==
    retryPc = "settled" =>
        \/ /\ promise.state = "fulfilled"
           /\ \E i \in DOMAIN fnCalls :
                 fnCalls[i].ok /\ promise.value = fnCalls[i].outcome
        \/ /\ promise.state = "rejected"
           /\ promise.reason.name = "RetryError"

----------------------------------------------------------------------------
(* The confirmation window and the start of the transfer *)

\* C34: createTransferProcess is started only in a run in whose confirmation
\* window the user approved: after a cancel or a window close without approval
\* it is not started, whatever temp/ holds from earlier runs.
C34_TransferOnlyAfterApproval ==
    /\ flowPc = "transfer" => userAction = "approve"
    /\ \A k \in DOMAIN transfers : transfers[k].config = transfers[k].run

====
